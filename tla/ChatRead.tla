------------------------------- MODULE ChatRead -------------------------------
(***************************************************************************)
(* Chat messages of one room and who has read them.  The game service      *)
(* sends a message with the members that have joined the room, the chat    *)
(* service stores it with the number of the others, and when a member      *)
(* joins, records him as reader of every message from before that has no   *)
(* such record and lowers their unread counts.                             *)
(*                                                                         *)
(* Each connection handles its messages in turn; each event of the chat    *)
(* service's queue has a goroutine of its own, so that events of all users *)
(* and of one user are handled together and in any order.                  *)
(*                                                                         *)
(* Messages are numbered by their CreatedAt.  A JoinAt is the number of    *)
(* messages created before.                                                *)
(***************************************************************************)
EXTENDS Integers, FiniteSets

CONSTANTS
  Users,      \* the members of the room, whose number the clients send as head count
  NoUser,     \* no member
  MaxMsgs,    \* bound: messages sent
  MaxJoins,   \* bound: join events published
  MaxFaults   \* bound: failed calls and crashes

ASSUME ConstantsAssumption ==
  /\ IsFiniteSet(Users) /\ NoUser \notin Users
  /\ MaxMsgs \in Nat /\ MaxJoins \in Nat /\ MaxFaults \in Nat

VARIABLES
  join_room,  \* join_room:{room}, the members that have the room open
  conn,       \* what each user's connection is doing
  seen,       \* the members that it has read from join_room for a message
  made,       \* messages sent
  chat,       \* where each message is
  ReaderIds,  \* the members that had joined, in each message's event
  unread,     \* unread_count in messages
  rows,       \* message_readers: the handlers that have inserted one for each message
  asked,      \* join events published
  joiner,     \* the UserID of each
  JoinAt,     \* and its time
  pc,         \* where its handler is
  todo,       \* messages whose readers the handler has yet to insert
  counted,    \* history: the handlers that have lowered the counts
  overtaken,  \* history: for each, the messages from before that were not stored yet
  raced,      \* history: the users two of whose joins were handled at once
  shown,      \* history: the unread counts at the last chat.latest
  faults      \* history: faults so far

connVars    == <<join_room, conn, seen>>
msgVars     == <<made, chat, ReaderIds>>
eventVars   == <<asked, joiner, JoinAt>>
historyVars == <<counted, overtaken, raced>>

vars == <<connVars, msgVars, unread, rows, eventVars, pc, todo, historyVars, shown, faults>>

-----------------------------------------------------------------------------
Msgs == 1..MaxMsgs

Joins == 1..MaxJoins

HandlerPcs == {"none", "flying", "insert", "publish", "done", "failed"}

Stored == {m \in Msgs : chat[m] = "stored"}

TypeOK ==
  /\ join_room \subseteq Users
  /\ conn \in [Users -> {"idle", "sending", "joining"}]
  /\ seen \in [Users -> SUBSET Users]
  /\ made \in 0..MaxMsgs
  /\ chat \in [Msgs -> {"none", "flying", "stored", "lost"}]
  /\ ReaderIds \in [Msgs -> SUBSET Users]
  /\ unread \in [Msgs -> Int]
  /\ rows \in [Msgs -> SUBSET Joins]
  /\ asked \in 0..MaxJoins
  /\ joiner \in [Joins -> Users \cup {NoUser}]
  /\ JoinAt \in [Joins -> 0..MaxMsgs]
  /\ pc \in [Joins -> HandlerPcs]
  /\ todo \in [Joins -> SUBSET Msgs]
  /\ counted \subseteq Joins
  /\ overtaken \in [Joins -> SUBSET Msgs]
  /\ raced \subseteq Users
  /\ shown \in [Msgs -> Int]
  /\ faults \in Nat

Init ==
  /\ join_room = {}
  /\ conn = [u \in Users |-> "idle"]
  /\ seen = [u \in Users |-> {}]
  /\ made = 0
  /\ chat = [m \in Msgs |-> "none"]
  /\ ReaderIds = [m \in Msgs |-> {}]
  /\ unread = [m \in Msgs |-> 0]
  /\ rows = [m \in Msgs |-> {}]
  /\ asked = 0
  /\ joiner = [j \in Joins |-> NoUser]
  /\ JoinAt = [j \in Joins |-> 0]
  /\ pc = [j \in Joins |-> "none"]
  /\ todo = [j \in Joins |-> {}]
  /\ counted = {}
  /\ overtaken = [j \in Joins |-> {}]
  /\ raced = {}
  /\ shown = [m \in Msgs |-> 0]
  /\ faults = 0

-----------------------------------------------------------------------------
\* The messages that a user has no record of having read, whose number is
\* GetUnreadCountByUserAndRoom.
UnreadOf(u) == {m \in Stored : \A j \in rows[m] : joiner[j] # u}

\* Mutant: the messages that nobody has a record of having read.
GetMessagesNobodyRead(u, before) == {m \in Stored : m <= before /\ rows[m] = {}}

\* Mutant: all messages, read or not.
GetMessagesBefore(u, before) == {m \in Stored : m <= before}

\* Mutant: the query has no time.
GetUnreadMessages(u, before) == UnreadOf(u)

\* GetUnreadMessagesBefore.
GetUnreadMessagesBefore(u, before) == {m \in UnreadOf(u) : m <= before}

-----------------------------------------------------------------------------
\* The game service: one connection.

ConnGoto(u, from, to) == conn[u] = from /\ conn' = [conn EXCEPT ![u] = to]

\* BroadcastMessage reads the users that are away and those that have joined ...
BroadcastRead(u) ==
  /\ made < MaxMsgs
  /\ ConnGoto(u, "idle", "sending")
  /\ seen' = [seen EXCEPT ![u] = join_room]
  /\ UNCHANGED <<join_room, msgVars, unread, rows, eventVars, pc, todo, historyVars, shown, faults>>

\* ... and then makes and publishes the message.
BroadcastPublish(u) ==
  /\ ConnGoto(u, "sending", "idle")
  /\ seen' = [seen EXCEPT ![u] = {}]
  /\ \E m \in Msgs :
       /\ m = made + 1
       /\ made' = m
       /\ chat' = [chat EXCEPT ![m] = "flying"]
       /\ ReaderIds' = [ReaderIds EXCEPT ![m] = seen[u]]
  /\ UNCHANGED <<join_room, unread, rows, eventVars, pc, todo, historyVars, shown, faults>>

\* JoinGameRoom adds the user ...
JoinRoom(u) ==
  /\ asked < MaxJoins
  /\ ConnGoto(u, "idle", "joining")
  /\ join_room' = join_room \cup {u}
  /\ UNCHANGED <<seen, msgVars, unread, rows, eventVars, pc, todo, historyVars, shown, faults>>

\* ... and publishes room.join with the time.
PublishRoomJoin(u) ==
  /\ ConnGoto(u, "joining", "idle")
  /\ \E j \in Joins :
       /\ j = asked + 1
       /\ asked' = j
       /\ joiner' = [joiner EXCEPT ![j] = u]
       /\ JoinAt' = [JoinAt EXCEPT ![j] = made]
       /\ pc' = [pc EXCEPT ![j] = "flying"]
  /\ UNCHANGED <<join_room, seen, msgVars, unread, rows, todo, historyVars, shown, faults>>

\* LeaveGameRoom.  A connection that ends leaves no room.
LeaveGameRoom(u) ==
  /\ conn[u] = "idle" /\ u \in join_room
  /\ join_room' = join_room \ {u}
  /\ UNCHANGED <<conn, seen, msgVars, unread, rows, eventVars, pc, todo, historyVars, shown, faults>>

\* An event that cannot be published is only logged.
PublishFails(u) ==
  /\ conn[u] # "idle"
  /\ faults < MaxFaults
  /\ conn' = [conn EXCEPT ![u] = "idle"]
  /\ seen' = [seen EXCEPT ![u] = {}]
  /\ faults' = faults + 1
  /\ UNCHANGED <<join_room, msgVars, unread, rows, eventVars, pc, todo, historyVars, shown>>

-----------------------------------------------------------------------------
\* The chat service.

\* Mutant: the sender is taken off the count, although he has the room open.
HandleChatEventButSender(m) ==
  /\ chat[m] = "flying"
  /\ chat' = [chat EXCEPT ![m] = "stored"]
  /\ unread' = [unread EXCEPT ![m] = Cardinality(Users) - Cardinality(ReaderIds[m]) - 1]
  /\ shown' = [shown EXCEPT ![m] = Cardinality(Users) - Cardinality(ReaderIds[m]) - 1]
  /\ UNCHANGED <<connVars, made, ReaderIds, rows, eventVars, pc, todo, historyVars, faults>>

\* HandleChatEvent stores the message, and no readers.
HandleChatEvent(m) ==
  /\ chat[m] = "flying"
  /\ chat' = [chat EXCEPT ![m] = "stored"]
  /\ unread' = [unread EXCEPT ![m] = Cardinality(Users) - Cardinality(ReaderIds[m])]
  /\ shown' = [shown EXCEPT ![m] = Cardinality(Users) - Cardinality(ReaderIds[m])]
  /\ UNCHANGED <<connVars, made, ReaderIds, rows, eventVars, pc, todo, historyVars, faults>>

Goto(j, from, to) == pc[j] = from /\ pc' = [pc EXCEPT ![j] = to]

\* The handler of another join of the same user is between its query and its last row.
Overlaps(j) ==
  \E i \in Joins \ {j} : joiner[i] = joiner[j] /\ pc[i] = "insert" /\ todo[i] # {}

\* HandleRoomJoin queries the messages to read, and is done if there are none ...
HandleRoomJoin(j) ==
  LET messages == GetUnreadMessagesBefore(joiner[j], JoinAt[j])
  IN  /\ Goto(j, "flying", IF messages = {} THEN "done" ELSE "insert")
      /\ todo' = [todo EXCEPT ![j] = messages]
      /\ overtaken' = [overtaken EXCEPT ![j] = {m \in Msgs : m <= JoinAt[j]} \ Stored]
      /\ raced' = IF Overlaps(j) THEN raced \cup {joiner[j]} ELSE raced
      /\ UNCHANGED <<connVars, msgVars, unread, rows, eventVars, counted, shown, faults>>

\* ... inserts a reader for one after the other ...
InsertChatReader(j) ==
  /\ pc[j] = "insert"
  /\ \E m \in todo[j] :
       /\ rows' = [rows EXCEPT ![m] = @ \cup {j}]
       /\ todo' = [todo EXCEPT ![j] = @ \ {m}]
  /\ UNCHANGED <<connVars, msgVars, unread, eventVars, pc, historyVars, shown, faults>>

\* Mutant: the counts of all messages from before are lowered.
UpdateCountsBefore(j) ==
  /\ Goto(j, "insert", "publish")
  /\ todo[j] = {}
  /\ unread' = [m \in Msgs |-> IF m \in Stored /\ m <= JoinAt[j] THEN unread[m] - 1 ELSE unread[m]]
  /\ counted' = counted \cup {j}
  /\ UNCHANGED <<connVars, msgVars, rows, eventVars, todo, overtaken, raced, shown, faults>>

\* Mutant: and nobody is told.
UpdateCountsSilently(j) ==
  /\ Goto(j, "insert", "done")
  /\ todo[j] = {}
  /\ unread' = [m \in Msgs |-> IF j \in rows[m] THEN unread[m] - 1 ELSE unread[m]]
  /\ counted' = counted \cup {j}
  /\ UNCHANGED <<connVars, msgVars, rows, eventVars, todo, overtaken, raced, shown, faults>>

\* ... lowers the counts of all of them ...
UpdateUnreadCounts(j) ==
  /\ Goto(j, "insert", "publish")
  /\ todo[j] = {}
  /\ unread' = [m \in Msgs |-> IF j \in rows[m] THEN unread[m] - 1 ELSE unread[m]]
  /\ counted' = counted \cup {j}
  /\ UNCHANGED <<connVars, msgVars, rows, eventVars, todo, overtaken, raced, shown, faults>>

\* ... and has the room's clients told to read them again.
PublishChatLatest(j) ==
  /\ Goto(j, "publish", "done")
  /\ shown' = unread
  /\ UNCHANGED <<connVars, msgVars, unread, rows, eventVars, todo, historyVars, faults>>

-----------------------------------------------------------------------------
\* Faults.

\* The message is not stored; the event is gone.
InsertChatMessageFails(m) ==
  /\ chat[m] = "flying"
  /\ faults < MaxFaults
  /\ chat' = [chat EXCEPT ![m] = "lost"]
  /\ faults' = faults + 1
  /\ UNCHANGED <<connVars, made, ReaderIds, unread, rows, eventVars, pc, todo, historyVars, shown>>

\* A query or an insertion that fails ends HandleRoomJoin, with the counts as they
\* were.  The insertion may have happened.
JoinFails(j) ==
  /\ \/ pc[j] = "flying" /\ UNCHANGED rows
     \/ /\ pc[j] = "insert"
        /\ \E m \in todo[j] : rows' \in {rows, [rows EXCEPT ![m] = @ \cup {j}]}
  /\ faults < MaxFaults
  /\ pc' = [pc EXCEPT ![j] = "failed"]
  /\ todo' = [todo EXCEPT ![j] = {}]
  /\ faults' = faults + 1
  /\ UNCHANGED <<connVars, msgVars, unread, eventVars, historyVars, shown>>

\* A failed update of the counts is logged, and the clients are told all the same.
CountFails(j) ==
  /\ Goto(j, "insert", "publish")
  /\ todo[j] = {}
  /\ faults < MaxFaults
  /\ faults' = faults + 1
  /\ UNCHANGED <<connVars, msgVars, unread, rows, eventVars, todo, historyVars, shown>>

\* So is a failed publication.
LatestFails(j) ==
  /\ Goto(j, "publish", "done")
  /\ faults < MaxFaults
  /\ faults' = faults + 1
  /\ UNCHANGED <<connVars, msgVars, unread, rows, eventVars, todo, historyVars, shown>>

\* The chat service dies, and with it the handlers; their events are acknowledged.
Crash ==
  /\ faults < MaxFaults
  /\ faults' = faults + 1
  /\ pc' = [j \in Joins |-> IF pc[j] \in {"insert", "publish"} THEN "failed" ELSE pc[j]]
  /\ todo' = [j \in Joins |-> {}]
  /\ UNCHANGED <<connVars, msgVars, unread, rows, eventVars, historyVars, shown>>

Next ==
  \/ \E u \in Users :
       \/ BroadcastRead(u) \/ BroadcastPublish(u)
       \/ JoinRoom(u) \/ PublishRoomJoin(u) \/ LeaveGameRoom(u)
       \/ PublishFails(u)
  \/ \E m \in Msgs : HandleChatEvent(m) \/ InsertChatMessageFails(m)
  \/ \E j \in Joins :
       \/ HandleRoomJoin(j) \/ InsertChatReader(j)
       \/ UpdateUnreadCounts(j) \/ PublishChatLatest(j)
       \/ JoinFails(j) \/ CountFails(j) \/ LatestFails(j)
  \/ Crash

Spec == Init /\ [][Next]_vars

-----------------------------------------------------------------------------
\* Properties.

Receipts == INSTANCE ReadReceipts WITH
  Others <- [S \in SUBSET Users |-> Cardinality(Users) - Cardinality(S)],
  Visits <- Joins,
  sent <- made,
  stage <- chat,
  audience <- ReaderIds,
  visits <- asked,
  visitor <- joiner,
  since <- JoinAt,
  receipts <- rows,
  tallied <- counted,
  owed <- unread

\* Handlers query, insert and update in separate calls, of all joins at once, and fail
\* anywhere; still a count is lowered only as ReadReceipts says: by a join, once, for
\* the messages from before it that it is recorded as a reader of, and never for a
\* record that is made afterwards.
ImplementsReadReceipts == Receipts!Spec

\* No join is being handled.
Quiet == \A j \in Joins : pc[j] \notin {"insert", "publish"}

ReadersOf(m) == {joiner[j] : j \in rows[m]}

\* Once the handlers have come to rest, and without faults, a stored message's count
\* is that of the members who had not joined at its sending, less the reader records.
CountsSettle ==
  faults = 0 /\ Quiet =>
    \A m \in Stored :
      unread[m] = Cardinality(Users) - Cardinality(ReaderIds[m]) - Cardinality(rows[m])

\* A user is recorded twice as a message's reader only if two of his joins were handled
\* at once: nothing else, no fault and no crash, makes a later query miss the record.
DoubleReadIsRaced ==
  \A m \in Msgs : \A i, j \in rows[m] : i # j /\ joiner[i] = joiner[j] => joiner[j] \in raced

\* A count is lower than the number of members who have neither seen nor read the
\* message only after such a race, or if a member who saw it live has joined again: he
\* has no reader record from then, and is taken for a reader now.
UndercountExplained ==
  \A m \in Stored :
    \/ unread[m] >= Cardinality(Users \ (ReaderIds[m] \cup ReadersOf(m)))
    \/ ReadersOf(m) \cap (ReaderIds[m] \cup raced) # {}

\* After a join the user's own number of unread messages, in the list of rooms, counts
\* only messages that were sent later, or stored only after the join was handled.
BadgeFollowsJoins ==
  \A j \in Joins :
    pc[j] \in {"publish", "done"} =>
      UnreadOf(joiner[j]) \subseteq {m \in Msgs : m > JoinAt[j]} \cup overtaken[j]

\* Without faults the clients have been told of every count, once the handlers rest.
ClientsSeeCounts ==
  faults = 0 /\ Quiet => \A m \in Stored : shown[m] = unread[m]
=============================================================================
