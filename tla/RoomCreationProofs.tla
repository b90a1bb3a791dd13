-------------------------- MODULE RoomCreationProofs --------------------------
(***************************************************************************)
(* Theorems of RoomCreation, for any rooms, users, groups and bounds.      *)
(***************************************************************************)
EXTENDS RoomCreation, TLAPS

-----------------------------------------------------------------------------
\* The strengthening.

\* The match event of a room has been published and its handler has a Seq.
Born(r) ==
  /\ members[r] # {}
  /\ <<"chat", "match", r>> \notin queue
  /\ pc[r] # "seq"

\* A room begins with its match, and CreateRoom runs once.
StartInv ==
  \A r \in Rooms :
    /\ members[r] = {} =>
         /\ pc[r] = "none" /\ keys[r] = {} /\ r \notin choosing \cup over
         /\ <<"chat", "match", r>> \notin queue
    /\ pc[r] # "none" => <<"chat", "match", r>> \notin queue

\* What CreateRoom has made of a room by the time it makes the next piece.
PieceInv ==
  \A r \in Rooms :
    /\ pc[r] \in {"members", "status", "timer", "list", "formTimer", "publish"} => "doc" \in keys[r]
    /\ pc[r] \in {"status", "timer", "list", "formTimer", "publish"} => "members" \in keys[r]
    /\ pc[r] \in {"timer", "list", "formTimer", "publish"} => "status" \in keys[r]
    /\ pc[r] = "list" => "timer" \in keys[r] \/ r \in expired
    /\ pc[r] \in {"formTimer", "publish"} => {"list", "choice"} \cap keys[r] # {} \/ r \in lost

\* No two rooms were given the same number.
SeqInv ==
  /\ \A r \in Rooms : RoomSeq[r] <= room_counter
  /\ \A r, q \in Rooms : r # q /\ RoomSeq[r] = RoomSeq[q] => RoomSeq[r] = 0

\* A record has the number of its room.
RecordInv ==
  /\ \A r \in Rooms : <<"chat", "room.create", r>> \in queue => Born(r)
  /\ \A h \in histories : h.seq = RoomSeq[h.room] /\ Born(h.room)

\* What a row or a client shows was once told by a match event.
RowInv ==
  \A u \in Users : \A g \in {row[u], profile[u]} :
    g = STANDBY \/ \E q \in Rooms : g = Playing(q) /\ u \in joined[q]

\* A room that CreateRoom has not listed yet is not on the list; it has been stopped only
\* if its choice was to start; and the status tells how far the end of a room has come.
PlaceInv ==
  \A r \in Rooms :
    /\ \/ <<"chat", "match", r>> \in queue
       \/ pc[r] \in {"seq", "doc", "members", "status", "timer", "list"}
       \/ members[r] = {}
       => "list" \notin keys[r] /\ (r \in lost => "choice" \in keys[r])
    /\ "choice" \in keys[r] => r \in choosing \cup over \cup lost
    /\ r \in choosing \cup over => "choice" \in keys[r] /\ r \notin lost
    /\ r \in lost /\ "list" \in keys[r] => "choice" \in keys[r]

\* The user service works on members alone, and at the end on those of a room that is over.
TodoInv ==
  \A r \in Rooms :
    /\ \A kind \in Kinds : todo[<<kind, r>>] \subseteq members[r]
    /\ \/ <<"user", "final_choice_timeout", r>> \in queue
       \/ todo[<<"final_choice_timeout", r>>] # {}
       => r \in over

IInv ==
  /\ TypeOK
  /\ StartInv
  /\ PieceInv
  /\ ListedIsWhole
  /\ MatchNotForgotten
  /\ SeqInv
  /\ RecordInv
  /\ HistoryIsOwn
  /\ RowInv
  /\ GhostIsExplained
  /\ IdleIsExplained
  /\ MemberNotForgotten
  /\ PlaceInv
  /\ TodoInv

-----------------------------------------------------------------------------
\* The parts, one at a time.

\* Every step keeps the types.
LEMMA TypeNext == TypeOK /\ RowInv /\ [Next]_vars => TypeOK'
<1> SUFFICES ASSUME TypeOK, RowInv, [Next]_vars
             PROVE TypeOK'
  OBVIOUS
<1> USE ConstantsAssumption DEF TypeOK, Pieces, Marks, Kinds, GameInfo, STANDBY, Playing, vars, roomVars, userVars, endVars
<1>1. ASSUME NEW s \in Rooms, NEW g \in Groups, NotifyMatchSuccess(s, g) PROVE TypeOK'
  BY <1>1 DEF NotifyMatchSuccess
<1>2. ASSUME NEW s \in Rooms, HandleMatchEvent(s) PROVE TypeOK'
  BY <1>2 DEF HandleMatchEvent
<1>3. ASSUME NEW s \in Rooms, GetNextSequence(s) PROVE TypeOK'
  BY <1>3 DEF GetNextSequence
<1>4. ASSUME NEW s \in Rooms, SequenceFails(s) PROVE TypeOK'
  BY <1>4 DEF SequenceFails, Fault
<1>5. ASSUME NEW s \in Rooms, InsertRoom(s) PROVE TypeOK'
  BY <1>5 DEF InsertRoom, Make
<1>6. ASSUME NEW s \in Rooms, AddRoomToRedis(s) PROVE TypeOK'
  BY <1>6 DEF AddRoomToRedis, Make
<1>7. ASSUME NEW s \in Rooms, SetRoomStatus(s) PROVE TypeOK'
  BY <1>7 DEF SetRoomStatus, Make
<1>8. ASSUME NEW s \in Rooms, SetRoomTimeout(s) PROVE TypeOK'
  <2>1. ASSUME NEW at, NEW piece \in Pieces, NEW next \in Pieces, Make(s, at, piece, next) PROVE TypeOK'
    BY <2>1 DEF Make
  <2> QED
    BY <2>1, <1>8 DEF SetRoomTimeout
<1>9. ASSUME NEW s \in Rooms, SetBalanceGameTimer(s) PROVE TypeOK'
  BY <1>9 DEF SetBalanceGameTimer, Make
<1>10. ASSUME NEW s \in Rooms, PublishChatRoomCreateEvent(s) PROVE TypeOK'
  BY <1>10 DEF PublishChatRoomCreateEvent
<1>11. ASSUME NEW s \in Rooms, CreateRoomFails(s) PROVE TypeOK'
  <2>1. PICK done \in SUBSET ({pc[s]} \cap Pieces) : keys' = [keys EXCEPT ![s] = @ \cup done]
    BY <1>11 DEF CreateRoomFails
  <2>2. keys' \in [Rooms -> SUBSET (Pieces \cup Marks)] /\ pc' \in [Rooms -> Pieces \cup {"none", "seq", "publish"}]
    BY <2>1, <1>11 DEF CreateRoomFails
  <2>3. lost' \subseteq Rooms /\ faults' \in Nat
    BY <1>11 DEF CreateRoomFails, Fault, Stranded
  <2> QED
    BY <2>2, <2>3, <1>11 DEF CreateRoomFails
<1>12. ASSUME NEW s \in Rooms, HandleRoomCreateEvent(s) PROVE TypeOK'
  BY <1>12 DEF HandleRoomCreateEvent
<1>13. ASSUME NEW s \in Rooms, ChatHourEnds(s) PROVE TypeOK'
  BY <1>13 DEF ChatHourEnds
<1>14. ASSUME NEW s \in Rooms, MonitorChatTimeouts(s) PROVE TypeOK'
  BY <1>14 DEF MonitorChatTimeouts, TimedOut, GameIng
<1>15. ASSUME NEW s \in Rooms, RoomTimeoutFails(s) PROVE TypeOK'
  <2>1. PICK set \in SUBSET {"choice"} : keys' = [keys EXCEPT ![s] = (@ \ {"list"}) \cup set]
    BY <1>15 DEF RoomTimeoutFails
  <2>2. keys' \in [Rooms -> SUBSET (Pieces \cup Marks)]
    BY <2>1
  <2> QED
    BY <2>2, <1>15 DEF RoomTimeoutFails, Fault
<1>16. ASSUME NEW s \in Rooms, UpdateMatchHistoryFinalMatch(s) PROVE TypeOK'
  BY <1>16 DEF UpdateMatchHistoryFinalMatch
<1>17. ASSUME NEW s \in Rooms, MonitorFinalChoiceTimeouts(s) PROVE TypeOK'
  BY <1>17 DEF MonitorFinalChoiceTimeouts, ChoiceTimedOut
<1>18. ASSUME NEW s \in Rooms, ChoiceRoomNotRemoved(s) PROVE TypeOK'
  BY <1>18 DEF ChoiceRoomNotRemoved, Fault, ChoiceTimedOut
<1>19. ASSUME ChatServiceCrash PROVE TypeOK'
  BY <1>19 DEF ChatServiceCrash, Fault, Stranded
<1>20. ASSUME NEW s \in Rooms, NEW k \in Kinds, HandleEvent(k, s) PROVE TypeOK'
  BY <1>20 DEF HandleEvent
<1>21. ASSUME NEW s \in Rooms, NEW v \in Users, MarkPlaying(s, v) PROVE TypeOK'
  BY <1>21 DEF MarkPlaying, UpdateUserGameInfo
<1>22. ASSUME NEW s \in Rooms, NEW v \in Users, MarkStandby(s, v) PROVE TypeOK'
  BY <1>22 DEF MarkStandby, UpdateUserGameInfo
<1>23. ASSUME NEW s \in Rooms, NEW k \in Kinds, NEW v \in Users, UpdateFails(k, s, v) PROVE TypeOK'
  BY <1>23 DEF UpdateFails, Fault
<1>24. ASSUME UserServiceCrash PROVE TypeOK'
  BY <1>24 DEF UserServiceCrash, Fault
<1>25. ASSUME NEW v \in Users, FindUser(v) PROVE TypeOK'
  BY <1>25 DEF FindUser
<1>26. ASSUME NEW v \in Users, UpdateUser(v) PROVE TypeOK'
  <2>1. row' \in [Users -> GameInfo] /\ inputs' \in Nat
    BY <1>26 DEF UpdateUser, NonZeroFields
  <2>2. stale' \subseteq Users \X Rooms
    <3>1. CASE profile[v] = STANDBY
      BY <3>1, <1>26 DEF UpdateUser, NonZeroFields
    <3>2. CASE profile[v] # STANDBY
      <4>1. profile[v].room \in Rooms
        BY <3>2 DEF RowInv
      <4> QED
        BY <4>1, <1>26 DEF UpdateUser
    <3> QED
      BY <3>1, <3>2
  <2> QED
    BY <2>1, <2>2, <1>26 DEF UpdateUser
<1>27. ASSUME UNCHANGED vars PROVE TypeOK'
  BY <1>27
<1>28. ASSUME NEW s \in Rooms, RoomNotRemoved(s) PROVE TypeOK'
  BY <1>28 DEF RoomNotRemoved, Fault, TimedOut, GameIng
<1>29. ASSUME NEW s \in Rooms, ProcessRoomTimeoutMessage(s) PROVE TypeOK'
  BY <1>29 DEF ProcessRoomTimeoutMessage, GameIng
<1>30. ASSUME NEW s \in Rooms, FinalChoiceStartFails(s) PROVE TypeOK'
  BY <1>30 DEF FinalChoiceStartFails, Fault, GameIng
<1>31. ASSUME NEW s \in Rooms, FinalTimeoutFails(s) PROVE TypeOK'
  BY <1>31 DEF FinalTimeoutFails, Fault, ChoiceTimedOut
<1>32. CASE Failure
  BY <1>32, <1>4, <1>11, <1>15, <1>18, <1>19, <1>23, <1>24, <1>28, <1>30, <1>31
     DEF Failure
<1>33. ASSUME NEW s \in Rooms, CreateRoom(s) PROVE TypeOK'
  BY <1>33, <1>3, <1>5, <1>6, <1>7, <1>8, <1>9, <1>10 DEF CreateRoom
<1> QED
  BY <1>1, <1>2, <1>12, <1>13, <1>14, <1>16, <1>17, <1>20, <1>21, <1>22, <1>25, <1>26,
     <1>27, <1>29, <1>32, <1>33 DEF Next

\* A room is not touched before its match.
LEMMA StartNext == TypeOK /\ StartInv /\ [Next]_vars => StartInv'
<1> SUFFICES ASSUME TypeOK, StartInv, [Next]_vars
             PROVE StartInv'
  OBVIOUS
<1> USE ConstantsAssumption DEF TypeOK, StartInv, vars, roomVars, userVars, endVars
<1>1. ASSUME NEW s \in Rooms, NEW g \in Groups, NotifyMatchSuccess(s, g) PROVE StartInv'
  BY <1>1 DEF NotifyMatchSuccess
<1>2. ASSUME NEW s \in Rooms, HandleMatchEvent(s) PROVE StartInv'
  BY <1>2 DEF HandleMatchEvent
<1>3. ASSUME NEW s \in Rooms, GetNextSequence(s) PROVE StartInv'
  BY <1>3 DEF GetNextSequence
<1>4. ASSUME NEW s \in Rooms, SequenceFails(s) PROVE StartInv'
  BY <1>4 DEF SequenceFails, Fault
<1>5. ASSUME NEW s \in Rooms, InsertRoom(s) PROVE StartInv'
  BY <1>5 DEF InsertRoom, Make
<1>6. ASSUME NEW s \in Rooms, AddRoomToRedis(s) PROVE StartInv'
  BY <1>6 DEF AddRoomToRedis, Make
<1>7. ASSUME NEW s \in Rooms, SetRoomStatus(s) PROVE StartInv'
  BY <1>7 DEF SetRoomStatus, Make
<1>8. ASSUME NEW s \in Rooms, SetRoomTimeout(s) PROVE StartInv'
  BY <1>8 DEF SetRoomTimeout, Make
<1>9. ASSUME NEW s \in Rooms, SetBalanceGameTimer(s) PROVE StartInv'
  BY <1>9 DEF SetBalanceGameTimer, Make
<1>10. ASSUME NEW s \in Rooms, PublishChatRoomCreateEvent(s) PROVE StartInv'
  BY <1>10 DEF PublishChatRoomCreateEvent
<1>11. ASSUME NEW s \in Rooms, CreateRoomFails(s) PROVE StartInv'
  <2>1. pc[s] # "none" /\ members[s] # {}
    BY <1>11 DEF CreateRoomFails, Pieces
  <2>2. keys' = [keys EXCEPT ![s] = keys'[s]] /\ pc' = [pc EXCEPT ![s] = "none"]
    BY <1>11 DEF CreateRoomFails
  <2>3. UNCHANGED <<members, queue, choosing, over>>
    BY <1>11 DEF CreateRoomFails
  <2> QED
    BY <2>1, <2>2, <2>3
<1>12. ASSUME NEW s \in Rooms, HandleRoomCreateEvent(s) PROVE StartInv'
  BY <1>12 DEF HandleRoomCreateEvent
<1>13. ASSUME NEW s \in Rooms, ChatHourEnds(s) PROVE StartInv'
  BY <1>13 DEF ChatHourEnds
<1>14. ASSUME NEW s \in Rooms, MonitorChatTimeouts(s) PROVE StartInv'
  BY <1>14 DEF MonitorChatTimeouts, TimedOut, GameIng
<1>15. ASSUME NEW s \in Rooms, RoomTimeoutFails(s) PROVE StartInv'
  BY <1>15 DEF RoomTimeoutFails, Fault, TimedOut, GameIng
<1>16. ASSUME NEW s \in Rooms, UpdateMatchHistoryFinalMatch(s) PROVE StartInv'
  BY <1>16 DEF UpdateMatchHistoryFinalMatch
<1>17. ASSUME NEW s \in Rooms, MonitorFinalChoiceTimeouts(s) PROVE StartInv'
  BY <1>17 DEF MonitorFinalChoiceTimeouts, ChoiceTimedOut
<1>18. ASSUME NEW s \in Rooms, ChoiceRoomNotRemoved(s) PROVE StartInv'
  BY <1>18 DEF ChoiceRoomNotRemoved, Fault, ChoiceTimedOut
<1>19. ASSUME ChatServiceCrash PROVE StartInv'
  BY <1>19 DEF ChatServiceCrash, Fault, Stranded
<1>20. ASSUME NEW s \in Rooms, NEW k \in Kinds, HandleEvent(k, s) PROVE StartInv'
  BY <1>20 DEF HandleEvent
<1>21. ASSUME NEW s \in Rooms, NEW v \in Users, MarkPlaying(s, v) PROVE StartInv'
  BY <1>21 DEF MarkPlaying, UpdateUserGameInfo
<1>22. ASSUME NEW s \in Rooms, NEW v \in Users, MarkStandby(s, v) PROVE StartInv'
  BY <1>22 DEF MarkStandby, UpdateUserGameInfo
<1>23. ASSUME NEW s \in Rooms, NEW k \in Kinds, NEW v \in Users, UpdateFails(k, s, v) PROVE StartInv'
  BY <1>23 DEF UpdateFails, Fault
<1>24. ASSUME UserServiceCrash PROVE StartInv'
  BY <1>24 DEF UserServiceCrash, Fault
<1>25. ASSUME NEW v \in Users, FindUser(v) PROVE StartInv'
  BY <1>25 DEF FindUser
<1>26. ASSUME NEW v \in Users, UpdateUser(v) PROVE StartInv'
  BY <1>26 DEF UpdateUser, NonZeroFields
<1>27. ASSUME UNCHANGED vars PROVE StartInv'
  BY <1>27
<1>28. ASSUME NEW s \in Rooms, RoomNotRemoved(s) PROVE StartInv'
  BY <1>28 DEF RoomNotRemoved, Fault, TimedOut, GameIng
<1>29. ASSUME NEW s \in Rooms, ProcessRoomTimeoutMessage(s) PROVE StartInv'
  BY <1>29 DEF ProcessRoomTimeoutMessage, GameIng
<1>30. ASSUME NEW s \in Rooms, FinalChoiceStartFails(s) PROVE StartInv'
  BY <1>30 DEF FinalChoiceStartFails, Fault, GameIng
<1>31. ASSUME NEW s \in Rooms, FinalTimeoutFails(s) PROVE StartInv'
  BY <1>31 DEF FinalTimeoutFails, Fault, ChoiceTimedOut
<1>32. CASE Failure
  BY <1>32, <1>4, <1>11, <1>15, <1>18, <1>19, <1>23, <1>24, <1>28, <1>30, <1>31
     DEF Failure
<1>33. ASSUME NEW s \in Rooms, CreateRoom(s) PROVE StartInv'
  BY <1>33, <1>3, <1>5, <1>6, <1>7, <1>8, <1>9, <1>10 DEF CreateRoom
<1> QED
  BY <1>1, <1>2, <1>12, <1>13, <1>14, <1>16, <1>17, <1>20, <1>21, <1>22, <1>25, <1>26,
     <1>27, <1>29, <1>32, <1>33 DEF Next

\* CreateRoom goes on where it has been.
LEMMA PieceNext == TypeOK /\ StartInv /\ PieceInv /\ ListedIsWhole /\ [Next]_vars => PieceInv'
<1> SUFFICES ASSUME TypeOK, StartInv, PieceInv, ListedIsWhole, [Next]_vars
             PROVE PieceInv'
  OBVIOUS
<1> USE ConstantsAssumption DEF TypeOK, StartInv, PieceInv, ListedIsWhole, vars, roomVars, userVars, endVars
<1>1. ASSUME NEW s \in Rooms, NEW g \in Groups, NotifyMatchSuccess(s, g) PROVE PieceInv'
  BY <1>1 DEF NotifyMatchSuccess
<1>2. ASSUME NEW s \in Rooms, HandleMatchEvent(s) PROVE PieceInv'
  BY <1>2 DEF HandleMatchEvent
<1>3. ASSUME NEW s \in Rooms, GetNextSequence(s) PROVE PieceInv'
  BY <1>3 DEF GetNextSequence
<1>4. ASSUME NEW s \in Rooms, SequenceFails(s) PROVE PieceInv'
  BY <1>4 DEF SequenceFails, Fault
<1>5. ASSUME NEW s \in Rooms, InsertRoom(s) PROVE PieceInv'
  BY <1>5 DEF InsertRoom, Make
<1>6. ASSUME NEW s \in Rooms, AddRoomToRedis(s) PROVE PieceInv'
  BY <1>6 DEF AddRoomToRedis, Make
<1>7. ASSUME NEW s \in Rooms, SetRoomStatus(s) PROVE PieceInv'
  BY <1>7 DEF SetRoomStatus, Make
<1>8. ASSUME NEW s \in Rooms, SetRoomTimeout(s) PROVE PieceInv'
  <2>1. CASE Make(s, "timer", "timer", "list")
    BY <2>1 DEF Make
  <2>2. CASE Make(s, "list", "list", "formTimer")
    BY <2>2 DEF Make
  <2> QED
    BY <1>8, <2>1, <2>2 DEF SetRoomTimeout
<1>9. ASSUME NEW s \in Rooms, SetBalanceGameTimer(s) PROVE PieceInv'
  BY <1>9 DEF SetBalanceGameTimer, Make
<1>10. ASSUME NEW s \in Rooms, PublishChatRoomCreateEvent(s) PROVE PieceInv'
  BY <1>10 DEF PublishChatRoomCreateEvent
<1>11. ASSUME NEW s \in Rooms, CreateRoomFails(s) PROVE PieceInv'
  BY <1>11 DEF CreateRoomFails, Fault, Stranded
<1>12. ASSUME NEW s \in Rooms, HandleRoomCreateEvent(s) PROVE PieceInv'
  BY <1>12 DEF HandleRoomCreateEvent
<1>13. ASSUME NEW s \in Rooms, ChatHourEnds(s) PROVE PieceInv'
  BY <1>13 DEF ChatHourEnds
<1>14. ASSUME NEW s \in Rooms, MonitorChatTimeouts(s) PROVE PieceInv'
  BY <1>14 DEF MonitorChatTimeouts, TimedOut, GameIng
<1>15. ASSUME NEW s \in Rooms, RoomTimeoutFails(s) PROVE PieceInv'
  BY <1>15 DEF RoomTimeoutFails, Fault, TimedOut, GameIng
<1>16. ASSUME NEW s \in Rooms, UpdateMatchHistoryFinalMatch(s) PROVE PieceInv'
  BY <1>16 DEF UpdateMatchHistoryFinalMatch
<1>17. ASSUME NEW s \in Rooms, MonitorFinalChoiceTimeouts(s) PROVE PieceInv'
  BY <1>17 DEF MonitorFinalChoiceTimeouts, ChoiceTimedOut
<1>18. ASSUME NEW s \in Rooms, ChoiceRoomNotRemoved(s) PROVE PieceInv'
  BY <1>18 DEF ChoiceRoomNotRemoved, Fault, ChoiceTimedOut
<1>19. ASSUME ChatServiceCrash PROVE PieceInv'
  BY <1>19 DEF ChatServiceCrash, Fault, Stranded
<1>20. ASSUME NEW s \in Rooms, NEW k \in Kinds, HandleEvent(k, s) PROVE PieceInv'
  BY <1>20 DEF HandleEvent
<1>21. ASSUME NEW s \in Rooms, NEW v \in Users, MarkPlaying(s, v) PROVE PieceInv'
  BY <1>21 DEF MarkPlaying, UpdateUserGameInfo
<1>22. ASSUME NEW s \in Rooms, NEW v \in Users, MarkStandby(s, v) PROVE PieceInv'
  BY <1>22 DEF MarkStandby, UpdateUserGameInfo
<1>23. ASSUME NEW s \in Rooms, NEW k \in Kinds, NEW v \in Users, UpdateFails(k, s, v) PROVE PieceInv'
  BY <1>23 DEF UpdateFails, Fault
<1>24. ASSUME UserServiceCrash PROVE PieceInv'
  BY <1>24 DEF UserServiceCrash, Fault
<1>25. ASSUME NEW v \in Users, FindUser(v) PROVE PieceInv'
  BY <1>25 DEF FindUser
<1>26. ASSUME NEW v \in Users, UpdateUser(v) PROVE PieceInv'
  BY <1>26 DEF UpdateUser, NonZeroFields
<1>27. ASSUME UNCHANGED vars PROVE PieceInv'
  BY <1>27
<1>28. ASSUME NEW s \in Rooms, RoomNotRemoved(s) PROVE PieceInv'
  BY <1>28 DEF RoomNotRemoved, Fault, TimedOut, GameIng
<1>29. ASSUME NEW s \in Rooms, ProcessRoomTimeoutMessage(s) PROVE PieceInv'
  BY <1>29 DEF ProcessRoomTimeoutMessage, GameIng
<1>30. ASSUME NEW s \in Rooms, FinalChoiceStartFails(s) PROVE PieceInv'
  BY <1>30 DEF FinalChoiceStartFails, Fault, GameIng
<1>31. ASSUME NEW s \in Rooms, FinalTimeoutFails(s) PROVE PieceInv'
  BY <1>31 DEF FinalTimeoutFails, Fault, ChoiceTimedOut
<1>32. CASE Failure
  BY <1>32, <1>4, <1>11, <1>15, <1>18, <1>19, <1>23, <1>24, <1>28, <1>30, <1>31
     DEF Failure
<1>33. ASSUME NEW s \in Rooms, CreateRoom(s) PROVE PieceInv'
  BY <1>33, <1>3, <1>5, <1>6, <1>7, <1>8, <1>9, <1>10 DEF CreateRoom
<1> QED
  BY <1>1, <1>2, <1>12, <1>13, <1>14, <1>16, <1>17, <1>20, <1>21, <1>22, <1>25, <1>26,
     <1>27, <1>29, <1>32, <1>33 DEF Next

\* Pieces that a listed room needs stay.
LEMMA ListedNext == TypeOK /\ PieceInv /\ ListedIsWhole /\ [Next]_vars => ListedIsWhole'
<1> SUFFICES ASSUME TypeOK, PieceInv, ListedIsWhole, [Next]_vars
             PROVE ListedIsWhole'
  OBVIOUS
<1> USE ConstantsAssumption DEF TypeOK, PieceInv, ListedIsWhole, Pieces, vars, roomVars, userVars, endVars
<1>1. ASSUME NEW s \in Rooms, NEW g \in Groups, NotifyMatchSuccess(s, g) PROVE ListedIsWhole'
  BY <1>1 DEF NotifyMatchSuccess
<1>2. ASSUME NEW s \in Rooms, HandleMatchEvent(s) PROVE ListedIsWhole'
  BY <1>2 DEF HandleMatchEvent
<1>3. ASSUME NEW s \in Rooms, GetNextSequence(s) PROVE ListedIsWhole'
  BY <1>3 DEF GetNextSequence
<1>4. ASSUME NEW s \in Rooms, SequenceFails(s) PROVE ListedIsWhole'
  BY <1>4 DEF SequenceFails, Fault
<1>5. ASSUME NEW s \in Rooms, InsertRoom(s) PROVE ListedIsWhole'
  BY <1>5 DEF InsertRoom, Make
<1>6. ASSUME NEW s \in Rooms, AddRoomToRedis(s) PROVE ListedIsWhole'
  BY <1>6 DEF AddRoomToRedis, Make
<1>7. ASSUME NEW s \in Rooms, SetRoomStatus(s) PROVE ListedIsWhole'
  BY <1>7 DEF SetRoomStatus, Make
<1>8. ASSUME NEW s \in Rooms, SetRoomTimeout(s) PROVE ListedIsWhole'
  BY <1>8 DEF SetRoomTimeout, Make
<1>9. ASSUME NEW s \in Rooms, SetBalanceGameTimer(s) PROVE ListedIsWhole'
  BY <1>9 DEF SetBalanceGameTimer, Make
<1>10. ASSUME NEW s \in Rooms, PublishChatRoomCreateEvent(s) PROVE ListedIsWhole'
  BY <1>10 DEF PublishChatRoomCreateEvent
<1>11. ASSUME NEW s \in Rooms, CreateRoomFails(s) PROVE ListedIsWhole'
  BY <1>11 DEF CreateRoomFails, Fault, Stranded
<1>12. ASSUME NEW s \in Rooms, HandleRoomCreateEvent(s) PROVE ListedIsWhole'
  BY <1>12 DEF HandleRoomCreateEvent
<1>13. ASSUME NEW s \in Rooms, ChatHourEnds(s) PROVE ListedIsWhole'
  BY <1>13 DEF ChatHourEnds
<1>14. ASSUME NEW s \in Rooms, MonitorChatTimeouts(s) PROVE ListedIsWhole'
  BY <1>14 DEF MonitorChatTimeouts, TimedOut, GameIng
<1>15. ASSUME NEW s \in Rooms, RoomTimeoutFails(s) PROVE ListedIsWhole'
  BY <1>15 DEF RoomTimeoutFails, Fault, TimedOut, GameIng
<1>16. ASSUME NEW s \in Rooms, UpdateMatchHistoryFinalMatch(s) PROVE ListedIsWhole'
  BY <1>16 DEF UpdateMatchHistoryFinalMatch
<1>17. ASSUME NEW s \in Rooms, MonitorFinalChoiceTimeouts(s) PROVE ListedIsWhole'
  BY <1>17 DEF MonitorFinalChoiceTimeouts, ChoiceTimedOut
<1>18. ASSUME NEW s \in Rooms, ChoiceRoomNotRemoved(s) PROVE ListedIsWhole'
  BY <1>18 DEF ChoiceRoomNotRemoved, Fault, ChoiceTimedOut
<1>19. ASSUME ChatServiceCrash PROVE ListedIsWhole'
  BY <1>19 DEF ChatServiceCrash, Fault, Stranded
<1>20. ASSUME NEW s \in Rooms, NEW k \in Kinds, HandleEvent(k, s) PROVE ListedIsWhole'
  BY <1>20 DEF HandleEvent
<1>21. ASSUME NEW s \in Rooms, NEW v \in Users, MarkPlaying(s, v) PROVE ListedIsWhole'
  BY <1>21 DEF MarkPlaying, UpdateUserGameInfo
<1>22. ASSUME NEW s \in Rooms, NEW v \in Users, MarkStandby(s, v) PROVE ListedIsWhole'
  BY <1>22 DEF MarkStandby, UpdateUserGameInfo
<1>23. ASSUME NEW s \in Rooms, NEW k \in Kinds, NEW v \in Users, UpdateFails(k, s, v) PROVE ListedIsWhole'
  BY <1>23 DEF UpdateFails, Fault
<1>24. ASSUME UserServiceCrash PROVE ListedIsWhole'
  BY <1>24 DEF UserServiceCrash, Fault
<1>25. ASSUME NEW v \in Users, FindUser(v) PROVE ListedIsWhole'
  BY <1>25 DEF FindUser
<1>26. ASSUME NEW v \in Users, UpdateUser(v) PROVE ListedIsWhole'
  BY <1>26 DEF UpdateUser, NonZeroFields
<1>27. ASSUME UNCHANGED vars PROVE ListedIsWhole'
  BY <1>27
<1>28. ASSUME NEW s \in Rooms, RoomNotRemoved(s) PROVE ListedIsWhole'
  BY <1>28 DEF RoomNotRemoved, Fault, TimedOut, GameIng
<1>29. ASSUME NEW s \in Rooms, ProcessRoomTimeoutMessage(s) PROVE ListedIsWhole'
  BY <1>29 DEF ProcessRoomTimeoutMessage, GameIng
<1>30. ASSUME NEW s \in Rooms, FinalChoiceStartFails(s) PROVE ListedIsWhole'
  BY <1>30 DEF FinalChoiceStartFails, Fault, GameIng
<1>31. ASSUME NEW s \in Rooms, FinalTimeoutFails(s) PROVE ListedIsWhole'
  BY <1>31 DEF FinalTimeoutFails, Fault, ChoiceTimedOut
<1>32. CASE Failure
  BY <1>32, <1>4, <1>11, <1>15, <1>18, <1>19, <1>23, <1>24, <1>28, <1>30, <1>31
     DEF Failure
<1>33. ASSUME NEW s \in Rooms, CreateRoom(s) PROVE ListedIsWhole'
  BY <1>33, <1>3, <1>5, <1>6, <1>7, <1>8, <1>9, <1>10 DEF CreateRoom
<1> QED
  BY <1>1, <1>2, <1>12, <1>13, <1>14, <1>16, <1>17, <1>20, <1>21, <1>22, <1>25, <1>26,
     <1>27, <1>29, <1>32, <1>33 DEF Next

\* What takes a room from one place puts it into the next.
LEMMA MatchNext == TypeOK /\ StartInv /\ PieceInv /\ ListedIsWhole /\ PlaceInv /\ MatchNotForgotten /\ [Next]_vars => MatchNotForgotten'
<1> SUFFICES ASSUME TypeOK, StartInv, PieceInv, ListedIsWhole, PlaceInv, MatchNotForgotten, [Next]_vars
             PROVE MatchNotForgotten'
  OBVIOUS
<1> USE ConstantsAssumption DEF TypeOK, StartInv, PieceInv, ListedIsWhole, PlaceInv, MatchNotForgotten, Pieces, vars, roomVars, userVars, endVars
<1>1. ASSUME NEW s \in Rooms, NEW g \in Groups, NotifyMatchSuccess(s, g) PROVE MatchNotForgotten'
  BY <1>1 DEF NotifyMatchSuccess
<1>2. ASSUME NEW s \in Rooms, HandleMatchEvent(s) PROVE MatchNotForgotten'
  BY <1>2 DEF HandleMatchEvent
<1>3. ASSUME NEW s \in Rooms, GetNextSequence(s) PROVE MatchNotForgotten'
  BY <1>3 DEF GetNextSequence
<1>4. ASSUME NEW s \in Rooms, SequenceFails(s) PROVE MatchNotForgotten'
  BY <1>4 DEF SequenceFails, Fault
<1>5. ASSUME NEW s \in Rooms, InsertRoom(s) PROVE MatchNotForgotten'
  BY <1>5 DEF InsertRoom, Make
<1>6. ASSUME NEW s \in Rooms, AddRoomToRedis(s) PROVE MatchNotForgotten'
  BY <1>6 DEF AddRoomToRedis, Make
<1>7. ASSUME NEW s \in Rooms, SetRoomStatus(s) PROVE MatchNotForgotten'
  BY <1>7 DEF SetRoomStatus, Make
<1>8. ASSUME NEW s \in Rooms, SetRoomTimeout(s) PROVE MatchNotForgotten'
  BY <1>8 DEF SetRoomTimeout, Make
<1>9. ASSUME NEW s \in Rooms, SetBalanceGameTimer(s) PROVE MatchNotForgotten'
  BY <1>9 DEF SetBalanceGameTimer, Make
<1>10. ASSUME NEW s \in Rooms, PublishChatRoomCreateEvent(s) PROVE MatchNotForgotten'
  BY <1>10 DEF PublishChatRoomCreateEvent
<1>11. ASSUME NEW s \in Rooms, CreateRoomFails(s) PROVE MatchNotForgotten'
  BY <1>11 DEF CreateRoomFails, Fault, Stranded
<1>12. ASSUME NEW s \in Rooms, HandleRoomCreateEvent(s) PROVE MatchNotForgotten'
  BY <1>12 DEF HandleRoomCreateEvent
<1>13. ASSUME NEW s \in Rooms, ChatHourEnds(s) PROVE MatchNotForgotten'
  BY <1>13 DEF ChatHourEnds
<1>14. ASSUME NEW s \in Rooms, MonitorChatTimeouts(s) PROVE MatchNotForgotten'
  BY <1>14 DEF MonitorChatTimeouts, TimedOut, GameIng
<1>15. ASSUME NEW s \in Rooms, RoomTimeoutFails(s) PROVE MatchNotForgotten'
  BY <1>15 DEF RoomTimeoutFails, Fault, TimedOut, GameIng
<1>16. ASSUME NEW s \in Rooms, UpdateMatchHistoryFinalMatch(s) PROVE MatchNotForgotten'
  BY <1>16 DEF UpdateMatchHistoryFinalMatch
<1>17. ASSUME NEW s \in Rooms, MonitorFinalChoiceTimeouts(s) PROVE MatchNotForgotten'
  BY <1>17 DEF MonitorFinalChoiceTimeouts, ChoiceTimedOut
<1>18. ASSUME NEW s \in Rooms, ChoiceRoomNotRemoved(s) PROVE MatchNotForgotten'
  BY <1>18 DEF ChoiceRoomNotRemoved, Fault, ChoiceTimedOut
<1>19. ASSUME ChatServiceCrash PROVE MatchNotForgotten'
  BY <1>19 DEF ChatServiceCrash, Fault, Stranded
<1>20. ASSUME NEW s \in Rooms, NEW k \in Kinds, HandleEvent(k, s) PROVE MatchNotForgotten'
  BY <1>20 DEF HandleEvent
<1>21. ASSUME NEW s \in Rooms, NEW v \in Users, MarkPlaying(s, v) PROVE MatchNotForgotten'
  BY <1>21 DEF MarkPlaying, UpdateUserGameInfo
<1>22. ASSUME NEW s \in Rooms, NEW v \in Users, MarkStandby(s, v) PROVE MatchNotForgotten'
  BY <1>22 DEF MarkStandby, UpdateUserGameInfo
<1>23. ASSUME NEW s \in Rooms, NEW k \in Kinds, NEW v \in Users, UpdateFails(k, s, v) PROVE MatchNotForgotten'
  BY <1>23 DEF UpdateFails, Fault
<1>24. ASSUME UserServiceCrash PROVE MatchNotForgotten'
  BY <1>24 DEF UserServiceCrash, Fault
<1>25. ASSUME NEW v \in Users, FindUser(v) PROVE MatchNotForgotten'
  BY <1>25 DEF FindUser
<1>26. ASSUME NEW v \in Users, UpdateUser(v) PROVE MatchNotForgotten'
  BY <1>26 DEF UpdateUser, NonZeroFields
<1>27. ASSUME UNCHANGED vars PROVE MatchNotForgotten'
  BY <1>27
<1>28. ASSUME NEW s \in Rooms, RoomNotRemoved(s) PROVE MatchNotForgotten'
  BY <1>28 DEF RoomNotRemoved, Fault, TimedOut, GameIng
<1>29. ASSUME NEW s \in Rooms, ProcessRoomTimeoutMessage(s) PROVE MatchNotForgotten'
  BY <1>29 DEF ProcessRoomTimeoutMessage, GameIng
<1>30. ASSUME NEW s \in Rooms, FinalChoiceStartFails(s) PROVE MatchNotForgotten'
  BY <1>30 DEF FinalChoiceStartFails, Fault, GameIng
<1>31. ASSUME NEW s \in Rooms, FinalTimeoutFails(s) PROVE MatchNotForgotten'
  BY <1>31 DEF FinalTimeoutFails, Fault, ChoiceTimedOut
<1>32. CASE Failure
  BY <1>32, <1>4, <1>11, <1>15, <1>18, <1>19, <1>23, <1>24, <1>28, <1>30, <1>31
     DEF Failure
<1>33. ASSUME NEW s \in Rooms, CreateRoom(s) PROVE MatchNotForgotten'
  BY <1>33, <1>3, <1>5, <1>6, <1>7, <1>8, <1>9, <1>10 DEF CreateRoom
<1> QED
  BY <1>1, <1>2, <1>12, <1>13, <1>14, <1>16, <1>17, <1>20, <1>21, <1>22, <1>25, <1>26,
     <1>27, <1>29, <1>32, <1>33 DEF Next

\* The counter only grows.
LEMMA SeqNext == TypeOK /\ SeqInv /\ [Next]_vars => SeqInv'
<1> SUFFICES ASSUME TypeOK, SeqInv, [Next]_vars
             PROVE SeqInv'
  OBVIOUS
<1> USE ConstantsAssumption DEF TypeOK, SeqInv, vars, roomVars, userVars, endVars
<1>1. ASSUME NEW s \in Rooms, NEW g \in Groups, NotifyMatchSuccess(s, g) PROVE SeqInv'
  BY <1>1 DEF NotifyMatchSuccess
<1>2. ASSUME NEW s \in Rooms, HandleMatchEvent(s) PROVE SeqInv'
  BY <1>2 DEF HandleMatchEvent
<1>3. ASSUME NEW s \in Rooms, GetNextSequence(s) PROVE SeqInv'
  BY <1>3 DEF GetNextSequence
<1>4. ASSUME NEW s \in Rooms, SequenceFails(s) PROVE SeqInv'
  BY <1>4 DEF SequenceFails, Fault
<1>5. ASSUME NEW s \in Rooms, InsertRoom(s) PROVE SeqInv'
  BY <1>5 DEF InsertRoom, Make
<1>6. ASSUME NEW s \in Rooms, AddRoomToRedis(s) PROVE SeqInv'
  BY <1>6 DEF AddRoomToRedis, Make
<1>7. ASSUME NEW s \in Rooms, SetRoomStatus(s) PROVE SeqInv'
  BY <1>7 DEF SetRoomStatus, Make
<1>8. ASSUME NEW s \in Rooms, SetRoomTimeout(s) PROVE SeqInv'
  BY <1>8 DEF SetRoomTimeout, Make
<1>9. ASSUME NEW s \in Rooms, SetBalanceGameTimer(s) PROVE SeqInv'
  BY <1>9 DEF SetBalanceGameTimer, Make
<1>10. ASSUME NEW s \in Rooms, PublishChatRoomCreateEvent(s) PROVE SeqInv'
  BY <1>10 DEF PublishChatRoomCreateEvent
<1>11. ASSUME NEW s \in Rooms, CreateRoomFails(s) PROVE SeqInv'
  BY <1>11 DEF CreateRoomFails, Fault, Stranded
<1>12. ASSUME NEW s \in Rooms, HandleRoomCreateEvent(s) PROVE SeqInv'
  BY <1>12 DEF HandleRoomCreateEvent
<1>13. ASSUME NEW s \in Rooms, ChatHourEnds(s) PROVE SeqInv'
  BY <1>13 DEF ChatHourEnds
<1>14. ASSUME NEW s \in Rooms, MonitorChatTimeouts(s) PROVE SeqInv'
  BY <1>14 DEF MonitorChatTimeouts, TimedOut, GameIng
<1>15. ASSUME NEW s \in Rooms, RoomTimeoutFails(s) PROVE SeqInv'
  BY <1>15 DEF RoomTimeoutFails, Fault, TimedOut, GameIng
<1>16. ASSUME NEW s \in Rooms, UpdateMatchHistoryFinalMatch(s) PROVE SeqInv'
  BY <1>16 DEF UpdateMatchHistoryFinalMatch
<1>17. ASSUME NEW s \in Rooms, MonitorFinalChoiceTimeouts(s) PROVE SeqInv'
  BY <1>17 DEF MonitorFinalChoiceTimeouts, ChoiceTimedOut
<1>18. ASSUME NEW s \in Rooms, ChoiceRoomNotRemoved(s) PROVE SeqInv'
  BY <1>18 DEF ChoiceRoomNotRemoved, Fault, ChoiceTimedOut
<1>19. ASSUME ChatServiceCrash PROVE SeqInv'
  BY <1>19 DEF ChatServiceCrash, Fault, Stranded
<1>20. ASSUME NEW s \in Rooms, NEW k \in Kinds, HandleEvent(k, s) PROVE SeqInv'
  BY <1>20 DEF HandleEvent
<1>21. ASSUME NEW s \in Rooms, NEW v \in Users, MarkPlaying(s, v) PROVE SeqInv'
  BY <1>21 DEF MarkPlaying, UpdateUserGameInfo
<1>22. ASSUME NEW s \in Rooms, NEW v \in Users, MarkStandby(s, v) PROVE SeqInv'
  BY <1>22 DEF MarkStandby, UpdateUserGameInfo
<1>23. ASSUME NEW s \in Rooms, NEW k \in Kinds, NEW v \in Users, UpdateFails(k, s, v) PROVE SeqInv'
  BY <1>23 DEF UpdateFails, Fault
<1>24. ASSUME UserServiceCrash PROVE SeqInv'
  BY <1>24 DEF UserServiceCrash, Fault
<1>25. ASSUME NEW v \in Users, FindUser(v) PROVE SeqInv'
  BY <1>25 DEF FindUser
<1>26. ASSUME NEW v \in Users, UpdateUser(v) PROVE SeqInv'
  BY <1>26 DEF UpdateUser, NonZeroFields
<1>27. ASSUME UNCHANGED vars PROVE SeqInv'
  BY <1>27
<1>28. ASSUME NEW s \in Rooms, RoomNotRemoved(s) PROVE SeqInv'
  BY <1>28 DEF RoomNotRemoved, Fault, TimedOut, GameIng
<1>29. ASSUME NEW s \in Rooms, ProcessRoomTimeoutMessage(s) PROVE SeqInv'
  BY <1>29 DEF ProcessRoomTimeoutMessage, GameIng
<1>30. ASSUME NEW s \in Rooms, FinalChoiceStartFails(s) PROVE SeqInv'
  BY <1>30 DEF FinalChoiceStartFails, Fault, GameIng
<1>31. ASSUME NEW s \in Rooms, FinalTimeoutFails(s) PROVE SeqInv'
  BY <1>31 DEF FinalTimeoutFails, Fault, ChoiceTimedOut
<1>32. CASE Failure
  BY <1>32, <1>4, <1>11, <1>15, <1>18, <1>19, <1>23, <1>24, <1>28, <1>30, <1>31
     DEF Failure
<1>33. ASSUME NEW s \in Rooms, CreateRoom(s) PROVE SeqInv'
  BY <1>33, <1>3, <1>5, <1>6, <1>7, <1>8, <1>9, <1>10 DEF CreateRoom
<1> QED
  BY <1>1, <1>2, <1>12, <1>13, <1>14, <1>16, <1>17, <1>20, <1>21, <1>22, <1>25, <1>26,
     <1>27, <1>29, <1>32, <1>33 DEF Next

\* A room that has a record keeps its number.
LEMMA RecordNext == TypeOK /\ StartInv /\ RecordInv /\ [Next]_vars => RecordInv'
<1> SUFFICES ASSUME TypeOK, StartInv, RecordInv, [Next]_vars
             PROVE RecordInv'
  OBVIOUS
<1> USE ConstantsAssumption DEF TypeOK, StartInv, RecordInv, Born, vars, roomVars, userVars, endVars
<1>1. ASSUME NEW s \in Rooms, NEW g \in Groups, NotifyMatchSuccess(s, g) PROVE RecordInv'
  BY <1>1 DEF NotifyMatchSuccess
<1>2. ASSUME NEW s \in Rooms, HandleMatchEvent(s) PROVE RecordInv'
  BY <1>2 DEF HandleMatchEvent
<1>3. ASSUME NEW s \in Rooms, GetNextSequence(s) PROVE RecordInv'
  BY <1>3 DEF GetNextSequence
<1>4. ASSUME NEW s \in Rooms, SequenceFails(s) PROVE RecordInv'
  BY <1>4 DEF SequenceFails, Fault
<1>5. ASSUME NEW s \in Rooms, InsertRoom(s) PROVE RecordInv'
  BY <1>5 DEF InsertRoom, Make
<1>6. ASSUME NEW s \in Rooms, AddRoomToRedis(s) PROVE RecordInv'
  BY <1>6 DEF AddRoomToRedis, Make
<1>7. ASSUME NEW s \in Rooms, SetRoomStatus(s) PROVE RecordInv'
  BY <1>7 DEF SetRoomStatus, Make
<1>8. ASSUME NEW s \in Rooms, SetRoomTimeout(s) PROVE RecordInv'
  BY <1>8 DEF SetRoomTimeout, Make
<1>9. ASSUME NEW s \in Rooms, SetBalanceGameTimer(s) PROVE RecordInv'
  BY <1>9 DEF SetBalanceGameTimer, Make
<1>10. ASSUME NEW s \in Rooms, PublishChatRoomCreateEvent(s) PROVE RecordInv'
  BY <1>10 DEF PublishChatRoomCreateEvent
<1>11. ASSUME NEW s \in Rooms, CreateRoomFails(s) PROVE RecordInv'
  BY <1>11 DEF CreateRoomFails, Fault, Stranded
<1>12. ASSUME NEW s \in Rooms, HandleRoomCreateEvent(s) PROVE RecordInv'
  BY <1>12 DEF HandleRoomCreateEvent
<1>13. ASSUME NEW s \in Rooms, ChatHourEnds(s) PROVE RecordInv'
  BY <1>13 DEF ChatHourEnds
<1>14. ASSUME NEW s \in Rooms, MonitorChatTimeouts(s) PROVE RecordInv'
  BY <1>14 DEF MonitorChatTimeouts, TimedOut, GameIng
<1>15. ASSUME NEW s \in Rooms, RoomTimeoutFails(s) PROVE RecordInv'
  BY <1>15 DEF RoomTimeoutFails, Fault, TimedOut, GameIng
<1>16. ASSUME NEW s \in Rooms, UpdateMatchHistoryFinalMatch(s) PROVE RecordInv'
  BY <1>16 DEF UpdateMatchHistoryFinalMatch
<1>17. ASSUME NEW s \in Rooms, MonitorFinalChoiceTimeouts(s) PROVE RecordInv'
  BY <1>17 DEF MonitorFinalChoiceTimeouts, ChoiceTimedOut
<1>18. ASSUME NEW s \in Rooms, ChoiceRoomNotRemoved(s) PROVE RecordInv'
  BY <1>18 DEF ChoiceRoomNotRemoved, Fault, ChoiceTimedOut
<1>19. ASSUME ChatServiceCrash PROVE RecordInv'
  BY <1>19 DEF ChatServiceCrash, Fault, Stranded
<1>20. ASSUME NEW s \in Rooms, NEW k \in Kinds, HandleEvent(k, s) PROVE RecordInv'
  BY <1>20 DEF HandleEvent
<1>21. ASSUME NEW s \in Rooms, NEW v \in Users, MarkPlaying(s, v) PROVE RecordInv'
  BY <1>21 DEF MarkPlaying, UpdateUserGameInfo
<1>22. ASSUME NEW s \in Rooms, NEW v \in Users, MarkStandby(s, v) PROVE RecordInv'
  BY <1>22 DEF MarkStandby, UpdateUserGameInfo
<1>23. ASSUME NEW s \in Rooms, NEW k \in Kinds, NEW v \in Users, UpdateFails(k, s, v) PROVE RecordInv'
  BY <1>23 DEF UpdateFails, Fault
<1>24. ASSUME UserServiceCrash PROVE RecordInv'
  BY <1>24 DEF UserServiceCrash, Fault
<1>25. ASSUME NEW v \in Users, FindUser(v) PROVE RecordInv'
  BY <1>25 DEF FindUser
<1>26. ASSUME NEW v \in Users, UpdateUser(v) PROVE RecordInv'
  BY <1>26 DEF UpdateUser, NonZeroFields
<1>27. ASSUME UNCHANGED vars PROVE RecordInv'
  BY <1>27
<1>28. ASSUME NEW s \in Rooms, RoomNotRemoved(s) PROVE RecordInv'
  BY <1>28 DEF RoomNotRemoved, Fault, TimedOut, GameIng
<1>29. ASSUME NEW s \in Rooms, ProcessRoomTimeoutMessage(s) PROVE RecordInv'
  BY <1>29 DEF ProcessRoomTimeoutMessage, GameIng
<1>30. ASSUME NEW s \in Rooms, FinalChoiceStartFails(s) PROVE RecordInv'
  BY <1>30 DEF FinalChoiceStartFails, Fault, GameIng
<1>31. ASSUME NEW s \in Rooms, FinalTimeoutFails(s) PROVE RecordInv'
  BY <1>31 DEF FinalTimeoutFails, Fault, ChoiceTimedOut
<1>32. CASE Failure
  BY <1>32, <1>4, <1>11, <1>15, <1>18, <1>19, <1>23, <1>24, <1>28, <1>30, <1>31
     DEF Failure
<1>33. ASSUME NEW s \in Rooms, CreateRoom(s) PROVE RecordInv'
  BY <1>33, <1>3, <1>5, <1>6, <1>7, <1>8, <1>9, <1>10 DEF CreateRoom
<1> QED
  BY <1>1, <1>2, <1>12, <1>13, <1>14, <1>16, <1>17, <1>20, <1>21, <1>22, <1>25, <1>26,
     <1>27, <1>29, <1>32, <1>33 DEF Next

\* A number names one room, unless it is 0.
LEMMA HistoryNext == TypeOK /\ SeqInv /\ RecordInv /\ HistoryIsOwn /\ [Next]_vars => HistoryIsOwn'
<1> SUFFICES ASSUME TypeOK, SeqInv, RecordInv, HistoryIsOwn, [Next]_vars
             PROVE HistoryIsOwn'
  OBVIOUS
<1> USE ConstantsAssumption DEF TypeOK, SeqInv, RecordInv, HistoryIsOwn, vars, roomVars, userVars, endVars
<1>1. ASSUME NEW s \in Rooms, NEW g \in Groups, NotifyMatchSuccess(s, g) PROVE HistoryIsOwn'
  BY <1>1 DEF NotifyMatchSuccess
<1>2. ASSUME NEW s \in Rooms, HandleMatchEvent(s) PROVE HistoryIsOwn'
  BY <1>2 DEF HandleMatchEvent
<1>3. ASSUME NEW s \in Rooms, GetNextSequence(s) PROVE HistoryIsOwn'
  BY <1>3 DEF GetNextSequence
<1>4. ASSUME NEW s \in Rooms, SequenceFails(s) PROVE HistoryIsOwn'
  BY <1>4 DEF SequenceFails, Fault
<1>5. ASSUME NEW s \in Rooms, InsertRoom(s) PROVE HistoryIsOwn'
  BY <1>5 DEF InsertRoom, Make
<1>6. ASSUME NEW s \in Rooms, AddRoomToRedis(s) PROVE HistoryIsOwn'
  BY <1>6 DEF AddRoomToRedis, Make
<1>7. ASSUME NEW s \in Rooms, SetRoomStatus(s) PROVE HistoryIsOwn'
  BY <1>7 DEF SetRoomStatus, Make
<1>8. ASSUME NEW s \in Rooms, SetRoomTimeout(s) PROVE HistoryIsOwn'
  BY <1>8 DEF SetRoomTimeout, Make
<1>9. ASSUME NEW s \in Rooms, SetBalanceGameTimer(s) PROVE HistoryIsOwn'
  BY <1>9 DEF SetBalanceGameTimer, Make
<1>10. ASSUME NEW s \in Rooms, PublishChatRoomCreateEvent(s) PROVE HistoryIsOwn'
  BY <1>10 DEF PublishChatRoomCreateEvent
<1>11. ASSUME NEW s \in Rooms, CreateRoomFails(s) PROVE HistoryIsOwn'
  BY <1>11 DEF CreateRoomFails, Fault, Stranded
<1>12. ASSUME NEW s \in Rooms, HandleRoomCreateEvent(s) PROVE HistoryIsOwn'
  BY <1>12 DEF HandleRoomCreateEvent
<1>13. ASSUME NEW s \in Rooms, ChatHourEnds(s) PROVE HistoryIsOwn'
  BY <1>13 DEF ChatHourEnds
<1>14. ASSUME NEW s \in Rooms, MonitorChatTimeouts(s) PROVE HistoryIsOwn'
  BY <1>14 DEF MonitorChatTimeouts, TimedOut, GameIng
<1>15. ASSUME NEW s \in Rooms, RoomTimeoutFails(s) PROVE HistoryIsOwn'
  BY <1>15 DEF RoomTimeoutFails, Fault, TimedOut, GameIng
<1>16. ASSUME NEW s \in Rooms, UpdateMatchHistoryFinalMatch(s) PROVE HistoryIsOwn'
  BY <1>16 DEF UpdateMatchHistoryFinalMatch
<1>17. ASSUME NEW s \in Rooms, MonitorFinalChoiceTimeouts(s) PROVE HistoryIsOwn'
  BY <1>17 DEF MonitorFinalChoiceTimeouts, ChoiceTimedOut
<1>18. ASSUME NEW s \in Rooms, ChoiceRoomNotRemoved(s) PROVE HistoryIsOwn'
  BY <1>18 DEF ChoiceRoomNotRemoved, Fault, ChoiceTimedOut
<1>19. ASSUME ChatServiceCrash PROVE HistoryIsOwn'
  BY <1>19 DEF ChatServiceCrash, Fault, Stranded
<1>20. ASSUME NEW s \in Rooms, NEW k \in Kinds, HandleEvent(k, s) PROVE HistoryIsOwn'
  BY <1>20 DEF HandleEvent
<1>21. ASSUME NEW s \in Rooms, NEW v \in Users, MarkPlaying(s, v) PROVE HistoryIsOwn'
  BY <1>21 DEF MarkPlaying, UpdateUserGameInfo
<1>22. ASSUME NEW s \in Rooms, NEW v \in Users, MarkStandby(s, v) PROVE HistoryIsOwn'
  BY <1>22 DEF MarkStandby, UpdateUserGameInfo
<1>23. ASSUME NEW s \in Rooms, NEW k \in Kinds, NEW v \in Users, UpdateFails(k, s, v) PROVE HistoryIsOwn'
  BY <1>23 DEF UpdateFails, Fault
<1>24. ASSUME UserServiceCrash PROVE HistoryIsOwn'
  BY <1>24 DEF UserServiceCrash, Fault
<1>25. ASSUME NEW v \in Users, FindUser(v) PROVE HistoryIsOwn'
  BY <1>25 DEF FindUser
<1>26. ASSUME NEW v \in Users, UpdateUser(v) PROVE HistoryIsOwn'
  BY <1>26 DEF UpdateUser, NonZeroFields
<1>27. ASSUME UNCHANGED vars PROVE HistoryIsOwn'
  BY <1>27
<1>28. ASSUME NEW s \in Rooms, RoomNotRemoved(s) PROVE HistoryIsOwn'
  BY <1>28 DEF RoomNotRemoved, Fault, TimedOut, GameIng
<1>29. ASSUME NEW s \in Rooms, ProcessRoomTimeoutMessage(s) PROVE HistoryIsOwn'
  BY <1>29 DEF ProcessRoomTimeoutMessage, GameIng
<1>30. ASSUME NEW s \in Rooms, FinalChoiceStartFails(s) PROVE HistoryIsOwn'
  BY <1>30 DEF FinalChoiceStartFails, Fault, GameIng
<1>31. ASSUME NEW s \in Rooms, FinalTimeoutFails(s) PROVE HistoryIsOwn'
  BY <1>31 DEF FinalTimeoutFails, Fault, ChoiceTimedOut
<1>32. CASE Failure
  BY <1>32, <1>4, <1>11, <1>15, <1>18, <1>19, <1>23, <1>24, <1>28, <1>30, <1>31
     DEF Failure
<1>33. ASSUME NEW s \in Rooms, CreateRoom(s) PROVE HistoryIsOwn'
  BY <1>33, <1>3, <1>5, <1>6, <1>7, <1>8, <1>9, <1>10 DEF CreateRoom
<1> QED
  BY <1>1, <1>2, <1>12, <1>13, <1>14, <1>16, <1>17, <1>20, <1>21, <1>22, <1>25, <1>26,
     <1>27, <1>29, <1>32, <1>33 DEF Next

\* Rows and profiles are copies of what match events wrote.
LEMMA RowNext == TypeOK /\ RowInv /\ [Next]_vars => RowInv'
<1> SUFFICES ASSUME TypeOK, RowInv, [Next]_vars
             PROVE RowInv'
  OBVIOUS
<1> USE ConstantsAssumption DEF TypeOK, RowInv, vars, roomVars, userVars, endVars
<1>1. ASSUME NEW s \in Rooms, NEW g \in Groups, NotifyMatchSuccess(s, g) PROVE RowInv'
  BY <1>1 DEF NotifyMatchSuccess
<1>2. ASSUME NEW s \in Rooms, HandleMatchEvent(s) PROVE RowInv'
  BY <1>2 DEF HandleMatchEvent
<1>3. ASSUME NEW s \in Rooms, GetNextSequence(s) PROVE RowInv'
  BY <1>3 DEF GetNextSequence
<1>4. ASSUME NEW s \in Rooms, SequenceFails(s) PROVE RowInv'
  BY <1>4 DEF SequenceFails, Fault
<1>5. ASSUME NEW s \in Rooms, InsertRoom(s) PROVE RowInv'
  BY <1>5 DEF InsertRoom, Make
<1>6. ASSUME NEW s \in Rooms, AddRoomToRedis(s) PROVE RowInv'
  BY <1>6 DEF AddRoomToRedis, Make
<1>7. ASSUME NEW s \in Rooms, SetRoomStatus(s) PROVE RowInv'
  BY <1>7 DEF SetRoomStatus, Make
<1>8. ASSUME NEW s \in Rooms, SetRoomTimeout(s) PROVE RowInv'
  BY <1>8 DEF SetRoomTimeout, Make
<1>9. ASSUME NEW s \in Rooms, SetBalanceGameTimer(s) PROVE RowInv'
  BY <1>9 DEF SetBalanceGameTimer, Make
<1>10. ASSUME NEW s \in Rooms, PublishChatRoomCreateEvent(s) PROVE RowInv'
  BY <1>10 DEF PublishChatRoomCreateEvent
<1>11. ASSUME NEW s \in Rooms, CreateRoomFails(s) PROVE RowInv'
  BY <1>11 DEF CreateRoomFails, Fault, Stranded
<1>12. ASSUME NEW s \in Rooms, HandleRoomCreateEvent(s) PROVE RowInv'
  BY <1>12 DEF HandleRoomCreateEvent
<1>13. ASSUME NEW s \in Rooms, ChatHourEnds(s) PROVE RowInv'
  BY <1>13 DEF ChatHourEnds
<1>14. ASSUME NEW s \in Rooms, MonitorChatTimeouts(s) PROVE RowInv'
  BY <1>14 DEF MonitorChatTimeouts, TimedOut, GameIng
<1>15. ASSUME NEW s \in Rooms, RoomTimeoutFails(s) PROVE RowInv'
  BY <1>15 DEF RoomTimeoutFails, Fault, TimedOut, GameIng
<1>16. ASSUME NEW s \in Rooms, UpdateMatchHistoryFinalMatch(s) PROVE RowInv'
  BY <1>16 DEF UpdateMatchHistoryFinalMatch
<1>17. ASSUME NEW s \in Rooms, MonitorFinalChoiceTimeouts(s) PROVE RowInv'
  BY <1>17 DEF MonitorFinalChoiceTimeouts, ChoiceTimedOut
<1>18. ASSUME NEW s \in Rooms, ChoiceRoomNotRemoved(s) PROVE RowInv'
  BY <1>18 DEF ChoiceRoomNotRemoved, Fault, ChoiceTimedOut
<1>19. ASSUME ChatServiceCrash PROVE RowInv'
  BY <1>19 DEF ChatServiceCrash, Fault, Stranded
<1>20. ASSUME NEW s \in Rooms, NEW k \in Kinds, HandleEvent(k, s) PROVE RowInv'
  BY <1>20 DEF HandleEvent
<1>21. ASSUME NEW s \in Rooms, NEW v \in Users, MarkPlaying(s, v) PROVE RowInv'
  BY <1>21 DEF MarkPlaying, UpdateUserGameInfo
<1>22. ASSUME NEW s \in Rooms, NEW v \in Users, MarkStandby(s, v) PROVE RowInv'
  BY <1>22 DEF MarkStandby, UpdateUserGameInfo
<1>23. ASSUME NEW s \in Rooms, NEW k \in Kinds, NEW v \in Users, UpdateFails(k, s, v) PROVE RowInv'
  BY <1>23 DEF UpdateFails, Fault
<1>24. ASSUME UserServiceCrash PROVE RowInv'
  BY <1>24 DEF UserServiceCrash, Fault
<1>25. ASSUME NEW v \in Users, FindUser(v) PROVE RowInv'
  BY <1>25 DEF FindUser
<1>26. ASSUME NEW v \in Users, UpdateUser(v) PROVE RowInv'
  BY <1>26 DEF UpdateUser, NonZeroFields
<1>27. ASSUME UNCHANGED vars PROVE RowInv'
  BY <1>27
<1>28. ASSUME NEW s \in Rooms, RoomNotRemoved(s) PROVE RowInv'
  BY <1>28 DEF RoomNotRemoved, Fault, TimedOut, GameIng
<1>29. ASSUME NEW s \in Rooms, ProcessRoomTimeoutMessage(s) PROVE RowInv'
  BY <1>29 DEF ProcessRoomTimeoutMessage, GameIng
<1>30. ASSUME NEW s \in Rooms, FinalChoiceStartFails(s) PROVE RowInv'
  BY <1>30 DEF FinalChoiceStartFails, Fault, GameIng
<1>31. ASSUME NEW s \in Rooms, FinalTimeoutFails(s) PROVE RowInv'
  BY <1>31 DEF FinalTimeoutFails, Fault, ChoiceTimedOut
<1>32. CASE Failure
  BY <1>32, <1>4, <1>11, <1>15, <1>18, <1>19, <1>23, <1>24, <1>28, <1>30, <1>31
     DEF Failure
<1>33. ASSUME NEW s \in Rooms, CreateRoom(s) PROVE RowInv'
  BY <1>33, <1>3, <1>5, <1>6, <1>7, <1>8, <1>9, <1>10 DEF CreateRoom
<1> QED
  BY <1>1, <1>2, <1>12, <1>13, <1>14, <1>16, <1>17, <1>20, <1>21, <1>22, <1>25, <1>26,
     <1>27, <1>29, <1>32, <1>33 DEF Next

\* A row comes to name a room by its match event or by a client.
LEMMA GhostNext == TypeOK /\ RowInv /\ GhostIsExplained /\ [Next]_vars => GhostIsExplained'
<1> SUFFICES ASSUME TypeOK, RowInv, GhostIsExplained, [Next]_vars
             PROVE GhostIsExplained'
  OBVIOUS
<1> USE ConstantsAssumption DEF TypeOK, RowInv, GhostIsExplained, STANDBY, Playing, vars, roomVars, userVars, endVars
<1>1. ASSUME NEW s \in Rooms, NEW g \in Groups, NotifyMatchSuccess(s, g) PROVE GhostIsExplained'
  BY <1>1 DEF NotifyMatchSuccess
<1>2. ASSUME NEW s \in Rooms, HandleMatchEvent(s) PROVE GhostIsExplained'
  BY <1>2 DEF HandleMatchEvent
<1>3. ASSUME NEW s \in Rooms, GetNextSequence(s) PROVE GhostIsExplained'
  BY <1>3 DEF GetNextSequence
<1>4. ASSUME NEW s \in Rooms, SequenceFails(s) PROVE GhostIsExplained'
  BY <1>4 DEF SequenceFails, Fault
<1>5. ASSUME NEW s \in Rooms, InsertRoom(s) PROVE GhostIsExplained'
  BY <1>5 DEF InsertRoom, Make
<1>6. ASSUME NEW s \in Rooms, AddRoomToRedis(s) PROVE GhostIsExplained'
  BY <1>6 DEF AddRoomToRedis, Make
<1>7. ASSUME NEW s \in Rooms, SetRoomStatus(s) PROVE GhostIsExplained'
  BY <1>7 DEF SetRoomStatus, Make
<1>8. ASSUME NEW s \in Rooms, SetRoomTimeout(s) PROVE GhostIsExplained'
  BY <1>8 DEF SetRoomTimeout, Make
<1>9. ASSUME NEW s \in Rooms, SetBalanceGameTimer(s) PROVE GhostIsExplained'
  BY <1>9 DEF SetBalanceGameTimer, Make
<1>10. ASSUME NEW s \in Rooms, PublishChatRoomCreateEvent(s) PROVE GhostIsExplained'
  BY <1>10 DEF PublishChatRoomCreateEvent
<1>11. ASSUME NEW s \in Rooms, CreateRoomFails(s) PROVE GhostIsExplained'
  BY <1>11 DEF CreateRoomFails, Fault, Stranded
<1>12. ASSUME NEW s \in Rooms, HandleRoomCreateEvent(s) PROVE GhostIsExplained'
  BY <1>12 DEF HandleRoomCreateEvent
<1>13. ASSUME NEW s \in Rooms, ChatHourEnds(s) PROVE GhostIsExplained'
  BY <1>13 DEF ChatHourEnds
<1>14. ASSUME NEW s \in Rooms, MonitorChatTimeouts(s) PROVE GhostIsExplained'
  BY <1>14 DEF MonitorChatTimeouts, TimedOut, GameIng
<1>15. ASSUME NEW s \in Rooms, RoomTimeoutFails(s) PROVE GhostIsExplained'
  BY <1>15 DEF RoomTimeoutFails, Fault, TimedOut, GameIng
<1>16. ASSUME NEW s \in Rooms, UpdateMatchHistoryFinalMatch(s) PROVE GhostIsExplained'
  BY <1>16 DEF UpdateMatchHistoryFinalMatch
<1>17. ASSUME NEW s \in Rooms, MonitorFinalChoiceTimeouts(s) PROVE GhostIsExplained'
  BY <1>17 DEF MonitorFinalChoiceTimeouts, ChoiceTimedOut
<1>18. ASSUME NEW s \in Rooms, ChoiceRoomNotRemoved(s) PROVE GhostIsExplained'
  BY <1>18 DEF ChoiceRoomNotRemoved, Fault, ChoiceTimedOut
<1>19. ASSUME ChatServiceCrash PROVE GhostIsExplained'
  BY <1>19 DEF ChatServiceCrash, Fault, Stranded
<1>20. ASSUME NEW s \in Rooms, NEW k \in Kinds, HandleEvent(k, s) PROVE GhostIsExplained'
  BY <1>20 DEF HandleEvent
<1>21. ASSUME NEW s \in Rooms, NEW v \in Users, MarkPlaying(s, v) PROVE GhostIsExplained'
  BY <1>21 DEF MarkPlaying, UpdateUserGameInfo
<1>22. ASSUME NEW s \in Rooms, NEW v \in Users, MarkStandby(s, v) PROVE GhostIsExplained'
  BY <1>22 DEF MarkStandby, UpdateUserGameInfo
<1>23. ASSUME NEW s \in Rooms, NEW k \in Kinds, NEW v \in Users, UpdateFails(k, s, v) PROVE GhostIsExplained'
  BY <1>23 DEF UpdateFails, Fault
<1>24. ASSUME UserServiceCrash PROVE GhostIsExplained'
  BY <1>24 DEF UserServiceCrash, Fault
<1>25. ASSUME NEW v \in Users, FindUser(v) PROVE GhostIsExplained'
  BY <1>25 DEF FindUser
<1>26. ASSUME NEW v \in Users, UpdateUser(v) PROVE GhostIsExplained'
  BY <1>26 DEF UpdateUser, NonZeroFields
<1>27. ASSUME UNCHANGED vars PROVE GhostIsExplained'
  BY <1>27
<1>28. ASSUME NEW s \in Rooms, RoomNotRemoved(s) PROVE GhostIsExplained'
  BY <1>28 DEF RoomNotRemoved, Fault, TimedOut, GameIng
<1>29. ASSUME NEW s \in Rooms, ProcessRoomTimeoutMessage(s) PROVE GhostIsExplained'
  BY <1>29 DEF ProcessRoomTimeoutMessage, GameIng
<1>30. ASSUME NEW s \in Rooms, FinalChoiceStartFails(s) PROVE GhostIsExplained'
  BY <1>30 DEF FinalChoiceStartFails, Fault, GameIng
<1>31. ASSUME NEW s \in Rooms, FinalTimeoutFails(s) PROVE GhostIsExplained'
  BY <1>31 DEF FinalTimeoutFails, Fault, ChoiceTimedOut
<1>32. CASE Failure
  BY <1>32, <1>4, <1>11, <1>15, <1>18, <1>19, <1>23, <1>24, <1>28, <1>30, <1>31
     DEF Failure
<1>33. ASSUME NEW s \in Rooms, CreateRoom(s) PROVE GhostIsExplained'
  BY <1>33, <1>3, <1>5, <1>6, <1>7, <1>8, <1>9, <1>10 DEF CreateRoom
<1> QED
  BY <1>1, <1>2, <1>12, <1>13, <1>14, <1>16, <1>17, <1>20, <1>21, <1>22, <1>25, <1>26,
     <1>27, <1>29, <1>32, <1>33 DEF Next

\* A row stops to name a room by another room, or by a profile that names one.
LEMMA IdleNext == TypeOK /\ RowInv /\ IdleIsExplained /\ [Next]_vars => IdleIsExplained'
<1> SUFFICES ASSUME TypeOK, RowInv, IdleIsExplained, [Next]_vars
             PROVE IdleIsExplained'
  OBVIOUS
<1> USE ConstantsAssumption DEF TypeOK, RowInv, IdleIsExplained, STANDBY, Playing, vars, roomVars, userVars, endVars
<1>1. ASSUME NEW s \in Rooms, NEW g \in Groups, NotifyMatchSuccess(s, g) PROVE IdleIsExplained'
  BY <1>1 DEF NotifyMatchSuccess
<1>2. ASSUME NEW s \in Rooms, HandleMatchEvent(s) PROVE IdleIsExplained'
  BY <1>2 DEF HandleMatchEvent
<1>3. ASSUME NEW s \in Rooms, GetNextSequence(s) PROVE IdleIsExplained'
  BY <1>3 DEF GetNextSequence
<1>4. ASSUME NEW s \in Rooms, SequenceFails(s) PROVE IdleIsExplained'
  BY <1>4 DEF SequenceFails, Fault
<1>5. ASSUME NEW s \in Rooms, InsertRoom(s) PROVE IdleIsExplained'
  BY <1>5 DEF InsertRoom, Make
<1>6. ASSUME NEW s \in Rooms, AddRoomToRedis(s) PROVE IdleIsExplained'
  BY <1>6 DEF AddRoomToRedis, Make
<1>7. ASSUME NEW s \in Rooms, SetRoomStatus(s) PROVE IdleIsExplained'
  BY <1>7 DEF SetRoomStatus, Make
<1>8. ASSUME NEW s \in Rooms, SetRoomTimeout(s) PROVE IdleIsExplained'
  BY <1>8 DEF SetRoomTimeout, Make
<1>9. ASSUME NEW s \in Rooms, SetBalanceGameTimer(s) PROVE IdleIsExplained'
  BY <1>9 DEF SetBalanceGameTimer, Make
<1>10. ASSUME NEW s \in Rooms, PublishChatRoomCreateEvent(s) PROVE IdleIsExplained'
  BY <1>10 DEF PublishChatRoomCreateEvent
<1>11. ASSUME NEW s \in Rooms, CreateRoomFails(s) PROVE IdleIsExplained'
  BY <1>11 DEF CreateRoomFails, Fault, Stranded
<1>12. ASSUME NEW s \in Rooms, HandleRoomCreateEvent(s) PROVE IdleIsExplained'
  BY <1>12 DEF HandleRoomCreateEvent
<1>13. ASSUME NEW s \in Rooms, ChatHourEnds(s) PROVE IdleIsExplained'
  BY <1>13 DEF ChatHourEnds
<1>14. ASSUME NEW s \in Rooms, MonitorChatTimeouts(s) PROVE IdleIsExplained'
  BY <1>14 DEF MonitorChatTimeouts, TimedOut, GameIng
<1>15. ASSUME NEW s \in Rooms, RoomTimeoutFails(s) PROVE IdleIsExplained'
  BY <1>15 DEF RoomTimeoutFails, Fault, TimedOut, GameIng
<1>16. ASSUME NEW s \in Rooms, UpdateMatchHistoryFinalMatch(s) PROVE IdleIsExplained'
  BY <1>16 DEF UpdateMatchHistoryFinalMatch
<1>17. ASSUME NEW s \in Rooms, MonitorFinalChoiceTimeouts(s) PROVE IdleIsExplained'
  BY <1>17 DEF MonitorFinalChoiceTimeouts, ChoiceTimedOut
<1>18. ASSUME NEW s \in Rooms, ChoiceRoomNotRemoved(s) PROVE IdleIsExplained'
  BY <1>18 DEF ChoiceRoomNotRemoved, Fault, ChoiceTimedOut
<1>19. ASSUME ChatServiceCrash PROVE IdleIsExplained'
  BY <1>19 DEF ChatServiceCrash, Fault, Stranded
<1>20. ASSUME NEW s \in Rooms, NEW k \in Kinds, HandleEvent(k, s) PROVE IdleIsExplained'
  BY <1>20 DEF HandleEvent
<1>21. ASSUME NEW s \in Rooms, NEW v \in Users, MarkPlaying(s, v) PROVE IdleIsExplained'
  <2> SUFFICES ASSUME NEW u \in Users, NEW r \in Rooms,
                      u \in joined'[r] \ released'[r], row'[u] # Playing(r)
               PROVE  \E q \in Rooms \ {r} : u \in joined'[q] \cup released'[q]
    OBVIOUS
  <2>1. CASE u = v
    <3>1. s # r /\ u \in joined'[s] \cup released'[s]
      BY <1>21, <2>1 DEF MarkPlaying, UpdateUserGameInfo
    <3>2. QED
      BY <3>1
  <2>2. CASE u # v
    <3>1. u \in joined[r] \ released[r] /\ row[u] # Playing(r)
      BY <1>21, <2>2 DEF MarkPlaying, UpdateUserGameInfo
    <3>2. PICK q \in Rooms \ {r} : u \in joined[q] \cup released[q]
      BY <3>1
    <3>3. u \in joined'[q] \cup released'[q]
      BY <1>21, <3>2 DEF MarkPlaying
    <3>4. QED
      BY <3>3
  <2>3. QED
    BY <2>1, <2>2
<1>22. ASSUME NEW s \in Rooms, NEW v \in Users, MarkStandby(s, v) PROVE IdleIsExplained'
  <2> SUFFICES ASSUME NEW u \in Users, NEW r \in Rooms,
                      u \in joined'[r] \ released'[r], row'[u] # Playing(r)
               PROVE  \E q \in Rooms \ {r} : u \in joined'[q] \cup released'[q]
    OBVIOUS
  <2>1. CASE u = v
    <3>1. s # r /\ u \in joined'[s] \cup released'[s]
      BY <1>22, <2>1 DEF MarkStandby, UpdateUserGameInfo
    <3>2. QED
      BY <3>1
  <2>2. CASE u # v
    <3>1. u \in joined[r] \ released[r] /\ row[u] # Playing(r)
      BY <1>22, <2>2 DEF MarkStandby, UpdateUserGameInfo
    <3>2. PICK q \in Rooms \ {r} : u \in joined[q] \cup released[q]
      BY <3>1
    <3>3. u \in joined'[q] \cup released'[q]
      BY <1>22, <3>2 DEF MarkStandby
    <3>4. QED
      BY <3>3
  <2>3. QED
    BY <2>1, <2>2
<1>23. ASSUME NEW s \in Rooms, NEW k \in Kinds, NEW v \in Users, UpdateFails(k, s, v) PROVE IdleIsExplained'
  BY <1>23 DEF UpdateFails, Fault
<1>24. ASSUME UserServiceCrash PROVE IdleIsExplained'
  BY <1>24 DEF UserServiceCrash, Fault
<1>25. ASSUME NEW v \in Users, FindUser(v) PROVE IdleIsExplained'
  BY <1>25 DEF FindUser
<1>26. ASSUME NEW v \in Users, UpdateUser(v) PROVE IdleIsExplained'
  BY <1>26 DEF UpdateUser, NonZeroFields
<1>27. ASSUME UNCHANGED vars PROVE IdleIsExplained'
  BY <1>27
<1>28. ASSUME NEW s \in Rooms, RoomNotRemoved(s) PROVE IdleIsExplained'
  BY <1>28 DEF RoomNotRemoved, Fault, TimedOut, GameIng
<1>29. ASSUME NEW s \in Rooms, ProcessRoomTimeoutMessage(s) PROVE IdleIsExplained'
  BY <1>29 DEF ProcessRoomTimeoutMessage, GameIng
<1>30. ASSUME NEW s \in Rooms, FinalChoiceStartFails(s) PROVE IdleIsExplained'
  BY <1>30 DEF FinalChoiceStartFails, Fault, GameIng
<1>31. ASSUME NEW s \in Rooms, FinalTimeoutFails(s) PROVE IdleIsExplained'
  BY <1>31 DEF FinalTimeoutFails, Fault, ChoiceTimedOut
<1>32. CASE Failure
  BY <1>32, <1>4, <1>11, <1>15, <1>18, <1>19, <1>23, <1>24, <1>28, <1>30, <1>31
     DEF Failure
<1>33. ASSUME NEW s \in Rooms, CreateRoom(s) PROVE IdleIsExplained'
  BY <1>33, <1>3, <1>5, <1>6, <1>7, <1>8, <1>9, <1>10 DEF CreateRoom
<1> QED
  BY <1>1, <1>2, <1>12, <1>13, <1>14, <1>16, <1>17, <1>20, <1>21, <1>22, <1>25, <1>26,
     <1>27, <1>29, <1>32, <1>33 DEF Next

\* What takes a member from one place puts him into the next.
LEMMA MemberNext == TypeOK /\ StartInv /\ MemberNotForgotten /\ [Next]_vars => MemberNotForgotten'
<1> SUFFICES ASSUME TypeOK, StartInv, MemberNotForgotten, [Next]_vars
             PROVE MemberNotForgotten'
  OBVIOUS
<1> USE ConstantsAssumption DEF TypeOK, StartInv, MemberNotForgotten, vars, roomVars, userVars, endVars
<1>1. ASSUME NEW s \in Rooms, NEW g \in Groups, NotifyMatchSuccess(s, g) PROVE MemberNotForgotten'
  BY <1>1 DEF NotifyMatchSuccess
<1>2. ASSUME NEW s \in Rooms, HandleMatchEvent(s) PROVE MemberNotForgotten'
  BY <1>2 DEF HandleMatchEvent
<1>3. ASSUME NEW s \in Rooms, GetNextSequence(s) PROVE MemberNotForgotten'
  BY <1>3 DEF GetNextSequence
<1>4. ASSUME NEW s \in Rooms, SequenceFails(s) PROVE MemberNotForgotten'
  BY <1>4 DEF SequenceFails, Fault
<1>5. ASSUME NEW s \in Rooms, InsertRoom(s) PROVE MemberNotForgotten'
  BY <1>5 DEF InsertRoom, Make
<1>6. ASSUME NEW s \in Rooms, AddRoomToRedis(s) PROVE MemberNotForgotten'
  BY <1>6 DEF AddRoomToRedis, Make
<1>7. ASSUME NEW s \in Rooms, SetRoomStatus(s) PROVE MemberNotForgotten'
  BY <1>7 DEF SetRoomStatus, Make
<1>8. ASSUME NEW s \in Rooms, SetRoomTimeout(s) PROVE MemberNotForgotten'
  BY <1>8 DEF SetRoomTimeout, Make
<1>9. ASSUME NEW s \in Rooms, SetBalanceGameTimer(s) PROVE MemberNotForgotten'
  BY <1>9 DEF SetBalanceGameTimer, Make
<1>10. ASSUME NEW s \in Rooms, PublishChatRoomCreateEvent(s) PROVE MemberNotForgotten'
  BY <1>10 DEF PublishChatRoomCreateEvent
<1>11. ASSUME NEW s \in Rooms, CreateRoomFails(s) PROVE MemberNotForgotten'
  BY <1>11 DEF CreateRoomFails, Fault, Stranded
<1>12. ASSUME NEW s \in Rooms, HandleRoomCreateEvent(s) PROVE MemberNotForgotten'
  BY <1>12 DEF HandleRoomCreateEvent
<1>13. ASSUME NEW s \in Rooms, ChatHourEnds(s) PROVE MemberNotForgotten'
  BY <1>13 DEF ChatHourEnds
<1>14. ASSUME NEW s \in Rooms, MonitorChatTimeouts(s) PROVE MemberNotForgotten'
  BY <1>14 DEF MonitorChatTimeouts, TimedOut, GameIng
<1>15. ASSUME NEW s \in Rooms, RoomTimeoutFails(s) PROVE MemberNotForgotten'
  BY <1>15 DEF RoomTimeoutFails, Fault, TimedOut, GameIng
<1>16. ASSUME NEW s \in Rooms, UpdateMatchHistoryFinalMatch(s) PROVE MemberNotForgotten'
  BY <1>16 DEF UpdateMatchHistoryFinalMatch
<1>17. ASSUME NEW s \in Rooms, MonitorFinalChoiceTimeouts(s) PROVE MemberNotForgotten'
  BY <1>17 DEF MonitorFinalChoiceTimeouts, ChoiceTimedOut
<1>18. ASSUME NEW s \in Rooms, ChoiceRoomNotRemoved(s) PROVE MemberNotForgotten'
  BY <1>18 DEF ChoiceRoomNotRemoved, Fault, ChoiceTimedOut
<1>19. ASSUME ChatServiceCrash PROVE MemberNotForgotten'
  BY <1>19 DEF ChatServiceCrash, Fault, Stranded
<1>20. ASSUME NEW s \in Rooms, NEW k \in Kinds, HandleEvent(k, s) PROVE MemberNotForgotten'
  BY <1>20 DEF HandleEvent, Kinds
<1>21. ASSUME NEW s \in Rooms, NEW v \in Users, MarkPlaying(s, v) PROVE MemberNotForgotten'
  BY <1>21 DEF MarkPlaying, UpdateUserGameInfo, Kinds
<1>22. ASSUME NEW s \in Rooms, NEW v \in Users, MarkStandby(s, v) PROVE MemberNotForgotten'
  BY <1>22 DEF MarkStandby, UpdateUserGameInfo, Kinds
<1>23. ASSUME NEW s \in Rooms, NEW k \in Kinds, NEW v \in Users, UpdateFails(k, s, v) PROVE MemberNotForgotten'
  BY <1>23 DEF UpdateFails, Fault, Kinds
<1>24. ASSUME UserServiceCrash PROVE MemberNotForgotten'
  BY <1>24 DEF UserServiceCrash, Fault, Kinds
<1>25. ASSUME NEW v \in Users, FindUser(v) PROVE MemberNotForgotten'
  BY <1>25 DEF FindUser
<1>26. ASSUME NEW v \in Users, UpdateUser(v) PROVE MemberNotForgotten'
  BY <1>26 DEF UpdateUser, NonZeroFields
<1>27. ASSUME UNCHANGED vars PROVE MemberNotForgotten'
  BY <1>27
<1>28. ASSUME NEW s \in Rooms, RoomNotRemoved(s) PROVE MemberNotForgotten'
  BY <1>28 DEF RoomNotRemoved, Fault, TimedOut, GameIng
<1>29. ASSUME NEW s \in Rooms, ProcessRoomTimeoutMessage(s) PROVE MemberNotForgotten'
  BY <1>29 DEF ProcessRoomTimeoutMessage, GameIng
<1>30. ASSUME NEW s \in Rooms, FinalChoiceStartFails(s) PROVE MemberNotForgotten'
  BY <1>30 DEF FinalChoiceStartFails, Fault, GameIng
<1>31. ASSUME NEW s \in Rooms, FinalTimeoutFails(s) PROVE MemberNotForgotten'
  BY <1>31 DEF FinalTimeoutFails, Fault, ChoiceTimedOut
<1>32. CASE Failure
  BY <1>32, <1>4, <1>11, <1>15, <1>18, <1>19, <1>23, <1>24, <1>28, <1>30, <1>31
     DEF Failure
<1>33. ASSUME NEW s \in Rooms, CreateRoom(s) PROVE MemberNotForgotten'
  BY <1>33, <1>3, <1>5, <1>6, <1>7, <1>8, <1>9, <1>10 DEF CreateRoom
<1> QED
  BY <1>1, <1>2, <1>12, <1>13, <1>14, <1>16, <1>17, <1>20, <1>21, <1>22, <1>25, <1>26,
     <1>27, <1>29, <1>32, <1>33 DEF Next

\* CreateRoom lists a room once, and what takes it off the list puts it elsewhere.
LEMMA PlaceNext == TypeOK /\ StartInv /\ PlaceInv /\ [Next]_vars => PlaceInv'
<1> SUFFICES ASSUME TypeOK, StartInv, PlaceInv, [Next]_vars
             PROVE PlaceInv'
  OBVIOUS
<1> USE ConstantsAssumption DEF TypeOK, StartInv, PlaceInv, Pieces, vars, roomVars, userVars, endVars
<1>1. ASSUME NEW s \in Rooms, NEW g \in Groups, NotifyMatchSuccess(s, g) PROVE PlaceInv'
  BY <1>1 DEF NotifyMatchSuccess
<1>2. ASSUME NEW s \in Rooms, HandleMatchEvent(s) PROVE PlaceInv'
  BY <1>2 DEF HandleMatchEvent
<1>3. ASSUME NEW s \in Rooms, GetNextSequence(s) PROVE PlaceInv'
  BY <1>3 DEF GetNextSequence
<1>4. ASSUME NEW s \in Rooms, SequenceFails(s) PROVE PlaceInv'
  BY <1>4 DEF SequenceFails, Fault
<1>5. ASSUME NEW s \in Rooms, InsertRoom(s) PROVE PlaceInv'
  BY <1>5 DEF InsertRoom, Make
<1>6. ASSUME NEW s \in Rooms, AddRoomToRedis(s) PROVE PlaceInv'
  BY <1>6 DEF AddRoomToRedis, Make
<1>7. ASSUME NEW s \in Rooms, SetRoomStatus(s) PROVE PlaceInv'
  BY <1>7 DEF SetRoomStatus, Make
<1>8. ASSUME NEW s \in Rooms, SetRoomTimeout(s) PROVE PlaceInv'
  <2>1. CASE Make(s, "timer", "timer", "list")
    BY <2>1 DEF Make
  <2>2. CASE Make(s, "list", "list", "formTimer")
    BY <2>2 DEF Make
  <2> QED
    BY <1>8, <2>1, <2>2 DEF SetRoomTimeout
<1>9. ASSUME NEW s \in Rooms, SetBalanceGameTimer(s) PROVE PlaceInv'
  BY <1>9 DEF SetBalanceGameTimer, Make
<1>10. ASSUME NEW s \in Rooms, PublishChatRoomCreateEvent(s) PROVE PlaceInv'
  BY <1>10 DEF PublishChatRoomCreateEvent
<1>11. ASSUME NEW s \in Rooms, CreateRoomFails(s) PROVE PlaceInv'
  <2>1. pc[s] # "none" /\ members[s] # {} /\ <<"chat", "match", s>> \notin queue
    BY <1>11 DEF CreateRoomFails
  <2>2. PICK done \in SUBSET ({pc[s]} \cap Pieces) : keys' = [keys EXCEPT ![s] = @ \cup done]
    BY <1>11 DEF CreateRoomFails
  <2>3. "choice" \notin done /\ ("list" \in done => pc[s] = "list")
    OBVIOUS
  <2>4. /\ pc' = [pc EXCEPT ![s] = "none"]
        /\ lost' = IF Stranded(s) THEN lost \cup {s} ELSE lost
        /\ UNCHANGED <<members, queue, choosing, over>>
    BY <1>11 DEF CreateRoomFails
  <2> HIDE DEF Pieces
  <2>5. ASSUME NEW q \in Rooms, q # s
        PROVE  keys'[q] = keys[q] /\ pc'[q] = pc[q] /\ (q \in lost' <=> q \in lost)
    BY <2>2, <2>4, <2>5
  <2>6. keys'[s] = keys[s] \cup done /\ pc'[s] = "none"
    BY <2>2, <2>4
  <2> QED
    BY <2>1, <2>3, <2>4, <2>5, <2>6 DEF Stranded
<1>12. ASSUME NEW s \in Rooms, HandleRoomCreateEvent(s) PROVE PlaceInv'
  BY <1>12 DEF HandleRoomCreateEvent
<1>13. ASSUME NEW s \in Rooms, ChatHourEnds(s) PROVE PlaceInv'
  BY <1>13 DEF ChatHourEnds
<1>14. ASSUME NEW s \in Rooms, MonitorChatTimeouts(s) PROVE PlaceInv'
  BY <1>14 DEF MonitorChatTimeouts, TimedOut, GameIng
<1>15. ASSUME NEW s \in Rooms, RoomTimeoutFails(s) PROVE PlaceInv'
  <2>1. PICK set \in SUBSET {"choice"} : keys' = [keys EXCEPT ![s] = (@ \ {"list"}) \cup set]
    BY <1>15 DEF RoomTimeoutFails
  <2>2. /\ "list" \in keys[s] /\ "choice" \notin keys[s] /\ lost' = lost \cup {s}
        /\ UNCHANGED <<members, queue, pc, choosing, over>>
    BY <1>15 DEF RoomTimeoutFails, TimedOut, GameIng
  <2>3. keys'[s] = (keys[s] \ {"list"}) \cup set
    BY <2>1
  <2>4. ASSUME NEW q \in Rooms, q # s
        PROVE  keys'[q] = keys[q] /\ (q \in lost' <=> q \in lost)
    BY <2>1, <2>2, <2>4
  <2> QED
    BY <2>2, <2>3, <2>4
<1>16. ASSUME NEW s \in Rooms, UpdateMatchHistoryFinalMatch(s) PROVE PlaceInv'
  BY <1>16 DEF UpdateMatchHistoryFinalMatch
<1>17. ASSUME NEW s \in Rooms, MonitorFinalChoiceTimeouts(s) PROVE PlaceInv'
  BY <1>17 DEF MonitorFinalChoiceTimeouts, ChoiceTimedOut
<1>18. ASSUME NEW s \in Rooms, ChoiceRoomNotRemoved(s) PROVE PlaceInv'
  BY <1>18 DEF ChoiceRoomNotRemoved, Fault, ChoiceTimedOut
<1>19. ASSUME ChatServiceCrash PROVE PlaceInv'
  BY <1>19 DEF ChatServiceCrash, Fault, Stranded
<1>20. ASSUME NEW s \in Rooms, NEW k \in Kinds, HandleEvent(k, s) PROVE PlaceInv'
  BY <1>20 DEF HandleEvent
<1>21. ASSUME NEW s \in Rooms, NEW v \in Users, MarkPlaying(s, v) PROVE PlaceInv'
  BY <1>21 DEF MarkPlaying, UpdateUserGameInfo
<1>22. ASSUME NEW s \in Rooms, NEW v \in Users, MarkStandby(s, v) PROVE PlaceInv'
  BY <1>22 DEF MarkStandby, UpdateUserGameInfo
<1>23. ASSUME NEW s \in Rooms, NEW k \in Kinds, NEW v \in Users, UpdateFails(k, s, v) PROVE PlaceInv'
  BY <1>23 DEF UpdateFails, Fault
<1>24. ASSUME UserServiceCrash PROVE PlaceInv'
  BY <1>24 DEF UserServiceCrash, Fault
<1>25. ASSUME NEW v \in Users, FindUser(v) PROVE PlaceInv'
  BY <1>25 DEF FindUser
<1>26. ASSUME NEW v \in Users, UpdateUser(v) PROVE PlaceInv'
  BY <1>26 DEF UpdateUser, NonZeroFields
<1>27. ASSUME UNCHANGED vars PROVE PlaceInv'
  BY <1>27
<1>28. ASSUME NEW s \in Rooms, RoomNotRemoved(s) PROVE PlaceInv'
  BY <1>28 DEF RoomNotRemoved, Fault, TimedOut, GameIng
<1>29. ASSUME NEW s \in Rooms, ProcessRoomTimeoutMessage(s) PROVE PlaceInv'
  BY <1>29 DEF ProcessRoomTimeoutMessage, GameIng
<1>30. ASSUME NEW s \in Rooms, FinalChoiceStartFails(s) PROVE PlaceInv'
  BY <1>30 DEF FinalChoiceStartFails, Fault, GameIng
<1>31. ASSUME NEW s \in Rooms, FinalTimeoutFails(s) PROVE PlaceInv'
  BY <1>31 DEF FinalTimeoutFails, Fault, ChoiceTimedOut
<1>32. CASE Failure
  BY <1>32, <1>4, <1>11, <1>15, <1>18, <1>19, <1>23, <1>24, <1>28, <1>30, <1>31
     DEF Failure
<1>33. ASSUME NEW s \in Rooms, CreateRoom(s) PROVE PlaceInv'
  BY <1>33, <1>3, <1>5, <1>6, <1>7, <1>8, <1>9, <1>10 DEF CreateRoom
<1> QED
  BY <1>1, <1>2, <1>12, <1>13, <1>14, <1>16, <1>17, <1>20, <1>21, <1>22, <1>25, <1>26,
     <1>27, <1>29, <1>32, <1>33 DEF Next

\* A handler starts with the members of its room.
LEMMA TodoNext == TypeOK /\ StartInv /\ TodoInv /\ [Next]_vars => TodoInv'
<1> SUFFICES ASSUME TypeOK, StartInv, TodoInv, [Next]_vars
             PROVE TodoInv'
  OBVIOUS
<1> USE ConstantsAssumption DEF TypeOK, StartInv, TodoInv, Kinds, vars, roomVars, userVars, endVars
<1>1. ASSUME NEW s \in Rooms, NEW g \in Groups, NotifyMatchSuccess(s, g) PROVE TodoInv'
  BY <1>1 DEF NotifyMatchSuccess
<1>2. ASSUME NEW s \in Rooms, HandleMatchEvent(s) PROVE TodoInv'
  BY <1>2 DEF HandleMatchEvent
<1>3. ASSUME NEW s \in Rooms, GetNextSequence(s) PROVE TodoInv'
  BY <1>3 DEF GetNextSequence
<1>4. ASSUME NEW s \in Rooms, SequenceFails(s) PROVE TodoInv'
  BY <1>4 DEF SequenceFails, Fault
<1>5. ASSUME NEW s \in Rooms, InsertRoom(s) PROVE TodoInv'
  BY <1>5 DEF InsertRoom, Make
<1>6. ASSUME NEW s \in Rooms, AddRoomToRedis(s) PROVE TodoInv'
  BY <1>6 DEF AddRoomToRedis, Make
<1>7. ASSUME NEW s \in Rooms, SetRoomStatus(s) PROVE TodoInv'
  BY <1>7 DEF SetRoomStatus, Make
<1>8. ASSUME NEW s \in Rooms, SetRoomTimeout(s) PROVE TodoInv'
  BY <1>8 DEF SetRoomTimeout, Make
<1>9. ASSUME NEW s \in Rooms, SetBalanceGameTimer(s) PROVE TodoInv'
  BY <1>9 DEF SetBalanceGameTimer, Make
<1>10. ASSUME NEW s \in Rooms, PublishChatRoomCreateEvent(s) PROVE TodoInv'
  BY <1>10 DEF PublishChatRoomCreateEvent
<1>11. ASSUME NEW s \in Rooms, CreateRoomFails(s) PROVE TodoInv'
  BY <1>11 DEF CreateRoomFails, Fault, Stranded
<1>12. ASSUME NEW s \in Rooms, HandleRoomCreateEvent(s) PROVE TodoInv'
  BY <1>12 DEF HandleRoomCreateEvent
<1>13. ASSUME NEW s \in Rooms, ChatHourEnds(s) PROVE TodoInv'
  BY <1>13 DEF ChatHourEnds
<1>14. ASSUME NEW s \in Rooms, MonitorChatTimeouts(s) PROVE TodoInv'
  BY <1>14 DEF MonitorChatTimeouts, TimedOut, GameIng
<1>15. ASSUME NEW s \in Rooms, RoomTimeoutFails(s) PROVE TodoInv'
  BY <1>15 DEF RoomTimeoutFails, Fault, TimedOut, GameIng
<1>16. ASSUME NEW s \in Rooms, UpdateMatchHistoryFinalMatch(s) PROVE TodoInv'
  BY <1>16 DEF UpdateMatchHistoryFinalMatch
<1>17. ASSUME NEW s \in Rooms, MonitorFinalChoiceTimeouts(s) PROVE TodoInv'
  BY <1>17 DEF MonitorFinalChoiceTimeouts, ChoiceTimedOut
<1>18. ASSUME NEW s \in Rooms, ChoiceRoomNotRemoved(s) PROVE TodoInv'
  BY <1>18 DEF ChoiceRoomNotRemoved, Fault, ChoiceTimedOut
<1>19. ASSUME ChatServiceCrash PROVE TodoInv'
  BY <1>19 DEF ChatServiceCrash, Fault, Stranded
<1>20. ASSUME NEW s \in Rooms, NEW k \in Kinds, HandleEvent(k, s) PROVE TodoInv'
  BY <1>20 DEF HandleEvent
<1>21. ASSUME NEW s \in Rooms, NEW v \in Users, MarkPlaying(s, v) PROVE TodoInv'
  BY <1>21 DEF MarkPlaying, UpdateUserGameInfo
<1>22. ASSUME NEW s \in Rooms, NEW v \in Users, MarkStandby(s, v) PROVE TodoInv'
  BY <1>22 DEF MarkStandby, UpdateUserGameInfo
<1>23. ASSUME NEW s \in Rooms, NEW k \in Kinds, NEW v \in Users, UpdateFails(k, s, v) PROVE TodoInv'
  BY <1>23 DEF UpdateFails, Fault
<1>24. ASSUME UserServiceCrash PROVE TodoInv'
  BY <1>24 DEF UserServiceCrash, Fault
<1>25. ASSUME NEW v \in Users, FindUser(v) PROVE TodoInv'
  BY <1>25 DEF FindUser
<1>26. ASSUME NEW v \in Users, UpdateUser(v) PROVE TodoInv'
  BY <1>26 DEF UpdateUser, NonZeroFields
<1>27. ASSUME UNCHANGED vars PROVE TodoInv'
  BY <1>27
<1>28. ASSUME NEW s \in Rooms, RoomNotRemoved(s) PROVE TodoInv'
  BY <1>28 DEF RoomNotRemoved, Fault, TimedOut, GameIng
<1>29. ASSUME NEW s \in Rooms, ProcessRoomTimeoutMessage(s) PROVE TodoInv'
  BY <1>29 DEF ProcessRoomTimeoutMessage, GameIng
<1>30. ASSUME NEW s \in Rooms, FinalChoiceStartFails(s) PROVE TodoInv'
  BY <1>30 DEF FinalChoiceStartFails, Fault, GameIng
<1>31. ASSUME NEW s \in Rooms, FinalTimeoutFails(s) PROVE TodoInv'
  BY <1>31 DEF FinalTimeoutFails, Fault, ChoiceTimedOut
<1> HIDE DEF TypeOK, StartInv, TodoInv, Kinds, vars, roomVars, userVars, endVars
<1>32. CASE Failure
  BY <1>32, <1>4, <1>11, <1>15, <1>18, <1>19, <1>23, <1>24, <1>28, <1>30, <1>31
     DEF Failure
<1>33. ASSUME NEW s \in Rooms, CreateRoom(s) PROVE TodoInv'
  BY <1>33, <1>3, <1>5, <1>6, <1>7, <1>8, <1>9, <1>10 DEF CreateRoom
<1> QED
  BY <1>1, <1>2, <1>12, <1>13, <1>14, <1>16, <1>17, <1>20, <1>21, <1>22, <1>25, <1>26,
     <1>27, <1>29, <1>32, <1>33 DEF Next

-----------------------------------------------------------------------------
\* Before the first match nothing is anywhere.
LEMMA InitIInv == Init => IInv
<1> SUFFICES ASSUME Init PROVE IInv
  OBVIOUS
<1> USE ConstantsAssumption DEF Init
<1>1. TypeOK
  BY DEF TypeOK, GameInfo, STANDBY, Pieces, Marks, Kinds
<1>2. StartInv /\ PieceInv /\ ListedIsWhole /\ MatchNotForgotten
  BY DEF StartInv, PieceInv, ListedIsWhole, MatchNotForgotten
<1>3. SeqInv /\ RecordInv /\ HistoryIsOwn
  BY DEF SeqInv, RecordInv, HistoryIsOwn
<1>4. RowInv /\ GhostIsExplained /\ IdleIsExplained /\ MemberNotForgotten
  BY DEF RowInv, GhostIsExplained, IdleIsExplained, MemberNotForgotten
<1>5. PlaceInv /\ TodoInv
  BY DEF PlaceInv, TodoInv, Kinds
<1> QED
  BY <1>1, <1>2, <1>3, <1>4, <1>5 DEF IInv

\* Every step keeps the strengthening.
LEMMA NextIInv == IInv /\ [Next]_vars => IInv'
<1> SUFFICES ASSUME IInv, [Next]_vars PROVE IInv'
  OBVIOUS
<1>1. TypeOK' /\ StartInv' /\ PieceInv' /\ ListedIsWhole' /\ MatchNotForgotten'
  BY TypeNext, StartNext, PieceNext, ListedNext, MatchNext DEF IInv
<1>2. SeqInv' /\ RecordInv' /\ HistoryIsOwn'
  BY SeqNext, RecordNext, HistoryNext DEF IInv
<1>3. RowInv' /\ GhostIsExplained' /\ IdleIsExplained' /\ MemberNotForgotten'
  BY RowNext, GhostNext, IdleNext, MemberNext DEF IInv
<1>4. PlaceInv' /\ TodoInv'
  BY PlaceNext, TodoNext DEF IInv
<1> QED
  BY <1>1, <1>2, <1>3, <1>4 DEF IInv

\* The strengthening holds in every state of every behaviour.
THEOREM Invariance == Spec => []IInv
<1> QED
  BY InitIInv, NextIInv, PTL DEF Spec

\* Every variable keeps its type, whatever is matched, fails or is written back.
THEOREM TypeCorrect == Spec => []TypeOK
<1>1. IInv => TypeOK
  BY DEF IInv
<1> QED
  BY <1>1, Invariance, PTL

\* The monitors never come upon a room that CreateRoom has not finished.
THEOREM ListedRoomsAreWhole == Spec => []ListedIsWhole
<1>1. IInv => ListedIsWhole
  BY DEF IInv
<1> QED
  BY <1>1, Invariance, PTL

\* A match ends in the event of its end unless a failure has stopped it.
THEOREM MatchesAreNotForgotten == Spec => []MatchNotForgotten
<1>1. IInv => MatchNotForgotten
  BY DEF IInv
<1> QED
  BY <1>1, Invariance, PTL

\* Final matches go to the room that made them as long as the sequence answers.
THEOREM HistoriesAreOwn == Spec => []HistoryIsOwn
<1>1. IInv => HistoryIsOwn
  BY DEF IInv
<1> QED
  BY <1>1, Invariance, PTL

\* A released user is shown as playing only after a late match event or a stale profile.
THEOREM GhostsAreExplained == Spec => []GhostIsExplained
<1>1. IInv => GhostIsExplained
  BY DEF IInv
<1> QED
  BY <1>1, Invariance, PTL

\* A playing user is not shown in his room only if he has been matched to another.
THEOREM IdlesAreExplained == Spec => []IdleIsExplained
<1>1. IInv => IdleIsExplained
  BY DEF IInv
<1> QED
  BY <1>1, Invariance, PTL

\* The end of a room reaches every member whose update does not fail.
THEOREM MembersAreNotForgotten == Spec => []MemberNotForgotten
<1>1. IInv => MemberNotForgotten
  BY DEF IInv
<1> QED
  BY <1>1, Invariance, PTL

-----------------------------------------------------------------------------
\* The rooms of RoomLife.

Phases == [r \in Rooms |-> Phase(r)]

Ended == expired \cup {r \in Rooms : "timeouts" \in keys[r]}

\* A step that leaves a room where it is leaves its phase alone, if what CreateRoom
\* makes of it besides is all that changes.
LEMMA PhaseKept ==
  ASSUME NEW r \in Rooms,
         r \in over' <=> r \in over,
         r \in choosing' <=> r \in choosing,
         "list" \in keys'[r] <=> "list" \in keys[r],
         "choice" \in keys'[r] <=> "choice" \in keys[r],
         r \in lost' <=> r \in lost,
         members'[r] = members[r]
  PROVE  Phase(r)' = Phase(r)
BY DEF Phase

\* The hour of a room ends with its key, or with the set of its members.
LEMMA EndedKept ==
  ASSUME expired' = expired,
         \A r \in Rooms : "timeouts" \in keys'[r] <=> "timeouts" \in keys[r]
  PROVE  Ended' = Ended
BY DEF Ended

\* A step that changes neither phases nor histories is a stutter of RoomLife.
LEMMA LifeStutters ==
  ASSUME \A r \in Rooms : Phase(r)' = Phase(r), Ended' = Ended,
         UNCHANGED <<members, joined, released>>
  PROVE  [Life!Next]_(Life!vars)
BY DEF Life!vars, Ended

\* A step in which one room moves from one phase to another.
LEMMA LifeMoves ==
  ASSUME NEW s \in Rooms, NEW from, NEW to,
         Phase(s) \in from, Phase(s)' = to,
         \A r \in Rooms \ {s} : Phase(r)' = Phase(r),
         UNCHANGED <<joined, released>>
  PROVE  Life!Move(s, from, to)
<1>1. Phases' = [Phases EXCEPT ![s] = to]
  BY DEF Phases
<1> QED
  BY <1>1 DEF Life!Move, Phases

\* A fault that stops rooms on their way: they were being made, or were at their timeout.
LEMMA LifeStalls ==
  ASSUME NEW S \in SUBSET Rooms,
         \A r \in S : /\ Phase(r) = "making" \/ (Phase(r) = "open" /\ r \in expired)
                      /\ Phase(r)' = "stalled",
         \A r \in Rooms \ S : Phase(r)' = Phase(r),
         Ended' = Ended, UNCHANGED <<members, joined, released>>
  PROVE  [Life!Next]_(Life!vars)
<1>1. Phases' = [r \in Rooms |-> IF r \in S THEN "stalled" ELSE Phases[r]]
  BY DEF Phases
<1>2. Life!Stall(S)
  BY <1>1 DEF Life!Stall, Phases, Ended
<1> QED
  BY <1>2 DEF Life!Next

\* One room is stopped.
LEMMA LifeStallsOne ==
  ASSUME NEW s \in Rooms,
         Phase(s) = "making" \/ (Phase(s) = "open" /\ s \in expired),
         Phase(s)' = "stalled",
         \A r \in Rooms \ {s} : Phase(r)' = Phase(r),
         Ended' = Ended, UNCHANGED <<members, joined, released>>
  PROVE  [Life!Next]_(Life!vars)
<1>1. \A r \in {s} : /\ Phase(r) = "making" \/ (Phase(r) = "open" /\ r \in expired)
                    /\ Phase(r)' = "stalled"
  OBVIOUS
<1> QED
  BY <1>1, LifeStalls

\* The choice of a room starts, or a fault takes the room out of its start or its end.
LEMMA LifeChooses ==
  ASSUME NEW s \in Rooms,
         \/ /\ Phase(s) \in {"making", "open", "stalled"} /\ Phase(s)' \in {"choosing", "lost"}
            /\ s \in Ended'
         \/ Phase(s) = "choosing" /\ Phase(s)' = "lost",
         \A r \in Rooms \ {s} : Phase(r)' = Phase(r),
         Ended' \in {Ended, Ended \cup {s}},
         UNCHANGED <<members, joined, released>>
  PROVE  [Life!Next]_(Life!vars)
<1>1. Life!MayEndHour(s)
  BY DEF Life!MayEndHour, Ended
<1>2. CASE Phase(s)' = "choosing"
  <2>1. Life!Move(s, Life!BeforeChoice, "choosing")
    BY <1>2, LifeMoves DEF Life!BeforeChoice
  <2>2. s \in Ended'
    BY <1>2
  <2>3. Life!StartChoice(s)
    BY <1>1, <2>1, <2>2 DEF Life!StartChoice, Ended
  <2> QED
    BY <2>3 DEF Life!Next
<1>3. CASE Phase(s)' = "lost"
  <2>1. Life!Move(s, Life!BeforeChoice \cup {"choosing"}, "lost")
    BY <1>3, LifeMoves DEF Life!BeforeChoice
  <2>2. Life!Lose(s)
    BY <1>1, <2>1 DEF Life!Lose, Ended, Phases
  <2> QED
    BY <2>2 DEF Life!Next
<1> QED
  BY <1>2, <1>3

\* Every step of the two services, the monitors or a fault is one of a room's life, or none.
LEMMA LifeStep ==
  /\ TypeOK /\ TypeOK' /\ StartInv /\ PieceInv /\ ListedIsWhole /\ PlaceInv /\ TodoInv
  /\ [Next]_vars
  => [Life!Next]_(Life!vars)
<1> SUFFICES ASSUME TypeOK, TypeOK', StartInv, PieceInv, ListedIsWhole, PlaceInv, TodoInv,
                    [Next]_vars
             PROVE  [Life!Next]_(Life!vars)
  OBVIOUS
<1> USE DEF vars, roomVars, userVars, endVars
<1>1. ASSUME NEW s \in Rooms, NEW g \in Groups, NotifyMatchSuccess(s, g)
      PROVE  [Life!Next]_(Life!vars)
  <2>1. Phase(s) = "none" /\ Phase(s)' = "making"
    <3>1. members'[s] = g /\ g # {}
      BY <1>1, ConstantsAssumption DEF NotifyMatchSuccess, TypeOK
    <3>2. members[s] = {} /\ UNCHANGED <<over, choosing, keys, lost>>
      BY <1>1 DEF NotifyMatchSuccess
    <3> QED
      BY <3>1, <3>2 DEF Phase, StartInv, PlaceInv
  <2>2. \A r \in Rooms \ {s} : Phase(r)' = Phase(r)
    BY <1>1 DEF NotifyMatchSuccess, Phase, TypeOK
  <2>3. Life!Move(s, {"none"}, "making")
    BY <1>1, <2>1, <2>2, LifeMoves DEF NotifyMatchSuccess
  <2>4. Life!Match(s, g)
    BY <1>1, <2>3 DEF NotifyMatchSuccess, Life!Match
  <2> QED
    BY <2>4 DEF Life!Next
\* CreateRoom makes a piece: the list opens the room.
<1>2. ASSUME NEW s \in Rooms, NEW at, NEW piece \in Pieces, NEW next, Make(s, at, piece, next),
             piece # "list"
      PROVE  [Life!Next]_(Life!vars)
  <2>1. \A r \in Rooms : Phase(r)' = Phase(r)
    BY <1>2, PhaseKept DEF Make, TypeOK, Pieces
  <2>2. Ended' = Ended
    BY <1>2, EndedKept DEF Make, TypeOK, Pieces
  <2> QED
    BY <1>2, <2>1, <2>2, LifeStutters DEF Make
<1>3. ASSUME NEW s \in Rooms, Make(s, "list", "list", "formTimer")
      PROVE  [Life!Next]_(Life!vars)
  <2>1. /\ pc[s] = "list" /\ keys' = [keys EXCEPT ![s] = @ \cup {"list"}]
        /\ UNCHANGED <<members, over, choosing, lost, expired, joined, released>>
    BY <1>3 DEF Make
  <2>2. \A r \in Rooms \ {s} : Phase(r)' = Phase(r)
    BY <2>1, PhaseKept DEF TypeOK
  <2>3. Ended' = Ended
    BY <2>1, EndedKept DEF TypeOK
  <2>4. CASE Phase(s)' = Phase(s)
    BY <2>1, <2>2, <2>3, <2>4, LifeStutters
  \* The choice has not started, or the list would be of no use.
  <2>5. CASE Phase(s)' # Phase(s)
    <3>1. keys'[s] = keys[s] \cup {"list"}
      BY <2>1 DEF TypeOK
    <3>2. members[s] # {} /\ "list" \notin keys[s] /\ (s \in lost => "choice" \in keys[s])
      BY <2>1 DEF StartInv, PlaceInv
    <3>3. Phase(s) = "making" /\ Phase(s)' = "open"
      BY <2>1, <2>5, <3>1, <3>2 DEF Phase
    <3>4. Life!Open(s)
      BY <2>1, <2>2, <2>3, <3>3, LifeMoves DEF Life!Open, Ended
    <3> QED
      BY <3>4 DEF Life!Next
  <2> QED
    BY <2>4, <2>5
<1>4. ASSUME NEW s \in Rooms, CreateRoomFails(s)
      PROVE  [Life!Next]_(Life!vars)
  <2>1. PICK done \in SUBSET ({pc[s]} \cap Pieces) : keys' = [keys EXCEPT ![s] = @ \cup done]
    BY <1>4 DEF CreateRoomFails
  <2>2. /\ pc[s] \in Pieces \cup {"publish"} /\ members[s] # {}
        /\ lost' = IF Stranded(s) THEN lost \cup {s} ELSE lost
        /\ UNCHANGED <<members, over, choosing, expired, joined, released>>
    BY <1>4 DEF CreateRoomFails, StartInv, Pieces
  <2>3. "choice" \notin done /\ "timeouts" \notin done /\ ("list" \in done => pc[s] = "list")
    BY DEF Pieces
  <2>4. keys'[s] = keys[s] \cup done
    BY <2>1 DEF TypeOK
  <2>5. \A r \in Rooms \ {s} : Phase(r)' = Phase(r)
    BY <2>1, <2>2, PhaseKept DEF TypeOK
  <2>6. Ended' = Ended
    <3>1. \A r \in Rooms : "timeouts" \in keys'[r] <=> "timeouts" \in keys[r]
      BY <2>1, <2>3 DEF TypeOK
    <3> QED
      BY <2>2, <3>1, EndedKept
  \* The room is listed already, or has left the list, or its choice has started.
  <2>7. CASE Phase(s)' = Phase(s)
    BY <2>2, <2>5, <2>6, <2>7, LifeStutters
  \* The list was made, though its answer did not arrive.
  <2>8. CASE "list" \in done /\ Phase(s)' # Phase(s)
    <3>1. members[s] # {} /\ "list" \notin keys[s] /\ (s \in lost => "choice" \in keys[s])
      BY <2>2, <2>3, <2>8 DEF PlaceInv
    <3>2. lost' = lost
      BY <2>2, <2>4, <2>8 DEF Stranded
    <3>3. Phase(s) = "making" /\ Phase(s)' = "open"
      BY <2>2, <2>3, <2>4, <2>8, <3>1, <3>2 DEF Phase
    <3>4. Life!Open(s)
      BY <2>2, <2>5, <2>6, <3>3, LifeMoves DEF Life!Open, Ended
    <3> QED
      BY <3>4 DEF Life!Next
  <2>9. CASE "list" \notin done /\ Phase(s)' # Phase(s)
    <3>1. Phase(s) = "making" /\ Phase(s)' = "stalled"
      BY <2>2, <2>3, <2>4, <2>9 DEF Phase, Stranded, PlaceInv
    <3> QED
      BY <2>2, <2>5, <2>6, <3>1, LifeStallsOne
  <2> QED
    BY <2>7, <2>8, <2>9
<1>5. CASE ChatServiceCrash
  <2> DEFINE S == {r \in Rooms : Phase(r)' # Phase(r)}
  <2>1. /\ lost' = lost \cup {r \in Rooms : pc[r] # "none" /\ Stranded(r)}
        /\ UNCHANGED <<members, keys, over, choosing, expired, joined, released>>
    BY <1>5 DEF ChatServiceCrash
  <2>2. ASSUME NEW r \in S
        PROVE  Phase(r) = "making" /\ Phase(r)' = "stalled"
    <3>1. r \in lost' /\ r \notin lost
      BY <2>1, <2>2 DEF Phase
    <3>2. Stranded(r) /\ members[r] # {}
      BY <2>1, <3>1 DEF StartInv
    <3> QED
      BY <2>1, <2>2, <3>1, <3>2 DEF Phase, Stranded
  <2>3. \A r \in Rooms \ S : Phase(r)' = Phase(r)
    OBVIOUS
  <2>4. Ended' = Ended
    BY <2>1, EndedKept
  <2> QED
    BY <2>1, <2>2, <2>3, <2>4, LifeStalls
<1>6. ASSUME NEW s \in Rooms, ChatHourEnds(s)
      PROVE  [Life!Next]_(Life!vars)
  <2>1. /\ keys' = [keys EXCEPT ![s] = @ \ {"timer"}] /\ expired' = expired \cup {s}
        /\ "timer" \in keys[s]
        /\ UNCHANGED <<members, over, choosing, lost, joined, released>>
    BY <1>6 DEF ChatHourEnds
  <2>2. \A r \in Rooms : Phase(r)' = Phase(r)
    BY <2>1, PhaseKept DEF TypeOK
  <2>3. Phases' = Phases
    BY <2>2 DEF Phases
  <2>4. Phase(s) # "none"
    BY <2>1 DEF Phase, StartInv
  <2>5. Ended' = Ended \cup {s}
    <3>1. \A r \in Rooms : "timeouts" \in keys'[r] <=> "timeouts" \in keys[r]
      BY <2>1 DEF TypeOK
    <3> QED
      BY <2>1, <3>1 DEF Ended
  <2>6. Life!EndHour(s)
    BY <2>1, <2>3, <2>4, <2>5 DEF Life!EndHour, Phases, Ended
  <2> QED
    BY <2>6 DEF Life!Next
<1>7. ASSUME NEW s \in Rooms, MonitorChatTimeouts(s)
      PROVE  [Life!Next]_(Life!vars)
  <2>1. /\ s \in expired /\ "list" \in keys[s] /\ {"doc", "status"} \subseteq keys[s]
        /\ UNCHANGED <<members, over, lost, expired, joined, released>>
    BY <1>7 DEF MonitorChatTimeouts, TimedOut, ListedIsWhole
  \* A room whose choice has started only leaves the list.
  <2>2. CASE "choice" \in keys[s]
    <3>1. keys' = [keys EXCEPT ![s] = @ \ {"list"}] /\ choosing' = choosing
      BY <1>7, <2>2 DEF MonitorChatTimeouts, GameIng, TypeOK
    <3>2. \A r \in Rooms \ {s} : Phase(r)' = Phase(r)
      BY <2>1, <3>1, PhaseKept DEF TypeOK
    <3>3. keys'[s] = keys[s] \ {"list"} /\ s \in choosing \cup over \cup lost
      BY <2>2, <3>1 DEF TypeOK, PlaceInv
    <3>4. Phase(s)' = Phase(s)
      BY <2>1, <2>2, <3>1, <3>3 DEF Phase
    <3>5. Ended' = Ended
      BY <2>1, <3>1, EndedKept DEF TypeOK
    <3> QED
      BY <2>1, <3>2, <3>4, <3>5, LifeStutters
  <2>3. CASE "choice" \notin keys[s]
    <3>1. /\ keys' = [keys EXCEPT ![s] = (@ \ {"list"}) \cup {"choice"}]
          /\ choosing' = choosing \cup {s}
      BY <1>7, <2>1, <2>3 DEF MonitorChatTimeouts, GameIng
    <3>2. \A r \in Rooms \ {s} : Phase(r)' = Phase(r)
      BY <2>1, <3>1, PhaseKept DEF TypeOK
    <3>3. Phase(s) = "open" /\ Phase(s)' = "choosing"
      BY <2>1, <2>3, <3>1 DEF Phase, PlaceInv
    <3>4. Ended' = Ended /\ s \in Ended'
      BY <2>1, <3>1, EndedKept DEF TypeOK, Ended
    <3> QED
      BY <2>1, <3>2, <3>3, <3>4, LifeChooses
  <2> QED
    BY <2>2, <2>3
<1>8. ASSUME NEW s \in Rooms, RoomTimeoutFails(s)
      PROVE  [Life!Next]_(Life!vars)
  <2>1. /\ s \in expired /\ "list" \in keys[s] /\ "choice" \notin keys[s]
        /\ lost' = lost \cup {s}
        /\ UNCHANGED <<members, over, choosing, expired, joined, released>>
    BY <1>8 DEF RoomTimeoutFails, TimedOut, GameIng, ListedIsWhole
  <2>2. PICK set \in SUBSET {"choice"} : keys' = [keys EXCEPT ![s] = (@ \ {"list"}) \cup set]
    BY <1>8 DEF RoomTimeoutFails
  <2>3. keys'[s] = (keys[s] \ {"list"}) \cup set
    BY <2>2 DEF TypeOK
  <2>4. \A r \in Rooms \ {s} : Phase(r)' = Phase(r)
    BY <2>1, <2>2, PhaseKept DEF TypeOK
  <2>5. Ended' = Ended /\ s \in Ended'
    BY <2>1, <2>2, EndedKept DEF TypeOK, Ended
  <2>6. Phase(s) = "open" /\ s \notin choosing \cup over
    BY <2>1 DEF Phase, PlaceInv
  <2>7. CASE "choice" \in set
    <3>1. Phase(s)' = "lost"
      BY <2>1, <2>3, <2>6, <2>7 DEF Phase
    <3> QED
      BY <2>1, <2>4, <2>5, <2>6, <3>1, LifeChooses
  <2>8. CASE "choice" \notin set
    <3>1. Phase(s)' = "stalled"
      BY <2>1, <2>3, <2>6, <2>8 DEF Phase
    <3> QED
      BY <2>1, <2>4, <2>5, <2>6, <3>1, LifeStallsOne
  <2> QED
    BY <2>7, <2>8
<1>9. ASSUME NEW s \in Rooms, MonitorFinalChoiceTimeouts(s) \/ ChoiceRoomNotRemoved(s)
      PROVE  [Life!Next]_(Life!vars)
  <2>1. /\ s \in choosing /\ over' = over \cup {s}
        /\ choosing' = choosing \/ choosing' = choosing \ {s}
        /\ UNCHANGED <<members, keys, lost, expired, joined, released>>
    BY <1>9 DEF MonitorFinalChoiceTimeouts, ChoiceRoomNotRemoved, ChoiceTimedOut
  <2>2. \A r \in Rooms \ {s} : Phase(r)' = Phase(r)
    BY <2>1, PhaseKept
  <2>3. Ended' = Ended
    BY <2>1, EndedKept
  <2>4. CASE s \in over
    <3>1. Phase(s)' = Phase(s)
      BY <2>1, <2>4 DEF Phase
    <3> QED
      BY <2>1, <2>2, <2>3, <3>1, LifeStutters
  <2>5. CASE s \notin over
    <3>1. Phase(s) = "choosing" /\ Phase(s)' = "over"
      BY <2>1, <2>5 DEF Phase
    <3>2. Life!End(s)
      BY <2>1, <2>2, <2>3, <3>1, LifeMoves DEF Life!End, Ended
    <3> QED
      BY <3>2 DEF Life!Next
  <2> QED
    BY <2>4, <2>5
<1>10. ASSUME NEW s \in Rooms, NEW v \in Users, MarkPlaying(s, v)
       PROVE  [Life!Next]_(Life!vars)
  <2>1. /\ v \in members[s] /\ joined' = [joined EXCEPT ![s] = @ \cup {v}]
        /\ UNCHANGED <<members, keys, over, choosing, lost, expired, released>>
    BY <1>10 DEF MarkPlaying, TodoInv, Kinds
  <2>2. Phases' = Phases
    BY <2>1 DEF Phases, Phase
  <2>3. Life!Join(s, v)
    BY <2>1, <2>2 DEF Life!Join, Phases
  <2> QED
    BY <2>3 DEF Life!Next
<1>11. ASSUME NEW s \in Rooms, NEW v \in Users, MarkStandby(s, v)
       PROVE  [Life!Next]_(Life!vars)
  <2>1. /\ v \in members[s] /\ s \in over /\ released' = [released EXCEPT ![s] = @ \cup {v}]
        /\ UNCHANGED <<members, keys, over, choosing, lost, expired, joined>>
    BY <1>11 DEF MarkStandby, TodoInv, Kinds
  <2>2. Phases' = Phases /\ Phase(s) = "over"
    BY <2>1 DEF Phases, Phase
  <2>3. Life!Release(s, v)
    BY <2>1, <2>2 DEF Life!Release, Phases
  <2> QED
    BY <2>3 DEF Life!Next
\* The choice starts without its room being taken off the list, or fails to.
<1>12. ASSUME NEW s \in Rooms, RoomNotRemoved(s) \/ ProcessRoomTimeoutMessage(s)
       PROVE  [Life!Next]_(Life!vars)
  <2>1. /\ GameIng(s) /\ choosing' = choosing \cup {s}
        /\ lost' = lost \/ lost' = lost \ {s}
        /\ UNCHANGED <<members, over, expired, joined, released>>
    BY <1>12 DEF RoomNotRemoved, ProcessRoomTimeoutMessage
  <2>2. /\ \A r \in Rooms \ {s} : keys'[r] = keys[r]
        /\ "choice" \in keys'[s]
        /\ \/ s \in expired /\ ("timeouts" \in keys'[s] <=> "timeouts" \in keys[s])
           \/ "timeouts" \in keys'[s]
    BY <1>12 DEF RoomNotRemoved, ProcessRoomTimeoutMessage, TimedOut, ListedIsWhole, TypeOK
  <2>3. \A r \in Rooms \ {s} : Phase(r)' = Phase(r)
    BY <2>1, <2>2, PhaseKept
  <2>4. Ended' \in {Ended, Ended \cup {s}} /\ s \in Ended'
    <3>1. CASE s \in expired /\ ("timeouts" \in keys'[s] <=> "timeouts" \in keys[s])
      <4>1. Ended' = Ended
        BY <2>1, <2>2, <3>1, EndedKept
      <4> QED
        BY <3>1, <4>1 DEF Ended
    <3>2. CASE "timeouts" \in keys'[s]
      BY <2>1, <2>2, <3>2 DEF Ended
    <3> QED
      BY <2>2, <3>1, <3>2
  <2>5. s \notin choosing \cup over /\ members[s] # {} /\ "choice" \notin keys[s]
    BY <2>1 DEF GameIng, PlaceInv, StartInv
  <2>6. Phase(s) \in {"making", "open", "stalled"} /\ Phase(s)' = "choosing"
    BY <2>1, <2>2, <2>5 DEF Phase
  <2> QED
    BY <2>1, <2>3, <2>4, <2>6, LifeChooses
<1>13. ASSUME NEW s \in Rooms, FinalChoiceStartFails(s)
       PROVE  [Life!Next]_(Life!vars)
  <2>1. /\ GameIng(s) /\ lost' = lost \cup {s}
        /\ keys' = [keys EXCEPT ![s] = @ \cup {"timeouts", "choice"}]
        /\ UNCHANGED <<members, over, choosing, expired, joined, released>>
    BY <1>13 DEF FinalChoiceStartFails
  <2>2. keys'[s] = keys[s] \cup {"timeouts", "choice"}
    BY <2>1 DEF TypeOK
  <2>3. \A r \in Rooms \ {s} : Phase(r)' = Phase(r)
    BY <2>1, PhaseKept DEF TypeOK
  <2>4. Ended' \in {Ended, Ended \cup {s}} /\ s \in Ended'
    <3>1. \A r \in Rooms \ {s} : keys'[r] = keys[r]
      BY <2>1 DEF TypeOK
    <3> QED
      BY <2>1, <2>2, <3>1 DEF Ended
  <2>5. s \notin choosing \cup over /\ members[s] # {} /\ "choice" \notin keys[s]
    BY <2>1 DEF GameIng, PlaceInv, StartInv
  <2>6. Phase(s) \in {"making", "open", "stalled"} /\ Phase(s)' = "lost"
    BY <2>1, <2>2, <2>5 DEF Phase
  <2> QED
    BY <2>1, <2>3, <2>4, <2>6, LifeChooses
\* The room is off the list of the final choices, and its end was not published.
<1>14. ASSUME NEW s \in Rooms, FinalTimeoutFails(s)
       PROVE  [Life!Next]_(Life!vars)
  <2>1. /\ s \in choosing /\ choosing' = choosing \ {s} /\ lost' = lost \cup ({s} \ over)
        /\ UNCHANGED <<members, keys, over, expired, joined, released>>
    BY <1>14 DEF FinalTimeoutFails, ChoiceTimedOut
  <2>2. \A r \in Rooms \ {s} : Phase(r)' = Phase(r)
    BY <2>1, PhaseKept
  <2>3. Ended' = Ended
    BY <2>1, EndedKept
  <2>4. CASE s \in over
    <3>1. Phase(s)' = Phase(s)
      BY <2>1, <2>4 DEF Phase
    <3> QED
      BY <2>1, <2>2, <2>3, <3>1, LifeStutters
  <2>5. CASE s \notin over
    <3>1. "choice" \in keys[s]
      BY <2>1 DEF PlaceInv
    <3>2. Phase(s) = "choosing" /\ Phase(s)' = "lost"
      BY <2>1, <2>5, <3>1 DEF Phase
    <3> QED
      BY <2>1, <2>2, <2>3, <3>2, LifeChooses
  <2> QED
    BY <2>4, <2>5
\* Nothing else moves a room, or marks anybody.
<1>15. CASE UNCHANGED <<members, keys, over, choosing, lost, expired, joined, released>>
  BY <1>15, LifeStutters DEF Phase, Ended
<1>16. ASSUME NEW s \in Rooms,
              \/ HandleMatchEvent(s) \/ GetNextSequence(s) \/ SequenceFails(s)
              \/ PublishChatRoomCreateEvent(s) \/ HandleRoomCreateEvent(s)
              \/ UpdateMatchHistoryFinalMatch(s) \/ \E k \in Kinds : HandleEvent(k, s)
              \/ \E k \in Kinds, v \in Users : UpdateFails(k, s, v)
       PROVE  UNCHANGED <<members, keys, over, choosing, lost, expired, joined, released>>
  BY <1>16 DEF HandleMatchEvent, GetNextSequence, SequenceFails, PublishChatRoomCreateEvent,
     HandleRoomCreateEvent, UpdateMatchHistoryFinalMatch, HandleEvent, UpdateFails
<1>17. ASSUME \/ UserServiceCrash \/ \E v \in Users : FindUser(v) \/ UpdateUser(v)
              \/ UNCHANGED vars
       PROVE  UNCHANGED <<members, keys, over, choosing, lost, expired, joined, released>>
  BY <1>17 DEF UserServiceCrash, FindUser, UpdateUser
<1>18. ASSUME NEW s \in Rooms,
              \/ InsertRoom(s) \/ AddRoomToRedis(s) \/ SetRoomStatus(s)
              \/ SetRoomTimeout(s) \/ SetBalanceGameTimer(s)
       PROVE  [Life!Next]_(Life!vars)
  BY <1>2, <1>3, <1>18 DEF InsertRoom, AddRoomToRedis, SetRoomStatus, SetRoomTimeout,
     SetBalanceGameTimer, Pieces
<1> QED
  BY <1>1, <1>4, <1>5, <1>6, <1>7, <1>8, <1>9, <1>10, <1>11, <1>15, <1>16, <1>17, <1>18, <1>12, <1>13,
     <1>14
  DEF Next, CreateRoom, Failure

\* However many rooms are made at once and whatever fails, the services lead each of them
\* through the life that RoomLife tells.
THEOREM RoomsLiveTheirLives == Spec => ImplementsRoomLife
<1>1. Init => Life!Init
  BY DEF Init, Life!Init, Phase
<1>2. IInv /\ IInv' /\ [Next]_vars => [Life!Next]_(Life!vars)
  BY LifeStep DEF IInv
<1> QED
  BY <1>1, <1>2, Invariance, PTL DEF Spec, ImplementsRoomLife, Life!Spec
=============================================================================
