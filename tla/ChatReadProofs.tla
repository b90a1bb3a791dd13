---------------------------- MODULE ChatReadProofs ----------------------------
(***************************************************************************)
(* Theorems of ChatRead, for every finite set of members and any number of *)
(* messages, joins and faults.                                             *)
(***************************************************************************)
EXTENDS ChatRead, FiniteSetTheorems, TLAPS

-----------------------------------------------------------------------------
\* The strengthening.

\* The records of handlers are about stored messages from before their joins.
HandlerInv ==
  /\ \A j \in Joins : pc[j] = "none" \/ joiner[j] \in Users
  /\ \A j \in Joins : j > asked => pc[j] = "none"
  /\ \A j \in Joins : todo[j] # {} => pc[j] = "insert"
  /\ \A j \in Joins : todo[j] \subseteq Stored
  /\ \A m \in Msgs : \A j \in rows[m] : pc[j] \notin {"none", "flying"} /\ m \in Stored /\ m \notin todo[j]
  /\ \A j \in counted : pc[j] \in {"publish", "done", "failed"}

\* A message without an event yet is not anywhere.
NumberInv ==
  /\ \A m \in Msgs : m > made => chat[m] = "none"
  /\ \A j \in Joins : JoinAt[j] <= made

\* A count is lowered once for each handler that has recorded the message's reader.
CountInv ==
  \A m \in Stored :
    unread[m] = Cardinality(Users) - Cardinality(ReaderIds[m]) - Cardinality(rows[m] \cap counted)

\* Without faults nobody forgets to lower a count.
OwedInv ==
  faults = 0 =>
    \A j \in Joins :
      /\ pc[j] # "failed"
      /\ pc[j] \in {"publish", "done"} => \A m \in Msgs : j \in rows[m] => j \in counted

\* Two handlers are about to record, or have recorded, the same reader.
RaceInv ==
  \A m \in Msgs : \A i, j \in Joins :
    /\ i # j /\ joiner[i] = joiner[j]
    /\ m \in todo[i] \/ i \in rows[m]
    /\ m \in todo[j] \/ j \in rows[m]
    => joiner[j] \in raced

\* What a join still leaves unread.
BadgeInv ==
  \A j \in Joins :
    pc[j] \in {"insert", "publish", "done"} =>
      \A m \in Msgs :
        (\A i \in rows[m] : joiner[i] # joiner[j]) =>
          m > JoinAt[j] \/ m \in overtaken[j] \/ m \in todo[j]

\* The handler that has lowered a count since the last chat.latest publishes the next.
ShownInv ==
  faults = 0 /\ (\A j \in Joins : pc[j] # "publish") => \A m \in Stored : shown[m] = unread[m]

IInv ==
  /\ TypeOK
  /\ HandlerInv
  /\ NumberInv
  /\ CountInv
  /\ OwedInv
  /\ RaceInv
  /\ BadgeInv
  /\ ShownInv

-----------------------------------------------------------------------------
\* The parts, one at a time.

\* Sets of handlers are finite.
LEMMA RowsFinite ==
  ASSUME TypeOK, NEW m \in Msgs
  PROVE  IsFiniteSet(rows[m]) /\ Cardinality(rows[m]) \in Nat
<1>1. IsFiniteSet(Joins)
  BY ConstantsAssumption, FS_Interval DEF Joins
<1>2. IsFiniteSet(rows[m])
  BY <1>1, FS_Subset DEF TypeOK
<1> QED
  BY <1>2, FS_CardinalityType

\* Connections, handlers and faults keep the types.
LEMMA TypeNext == TypeOK /\ HandlerInv /\ [Next]_vars => TypeOK'
<1> SUFFICES ASSUME TypeOK, HandlerInv, [Next]_vars PROVE TypeOK'
  OBVIOUS
<1> USE ConstantsAssumption DEF TypeOK, Msgs, Joins, HandlerPcs, Stored, vars, connVars, msgVars, eventVars, historyVars
<1>1. ASSUME NEW u \in Users, BroadcastRead(u) PROVE TypeOK'
  BY <1>1 DEF BroadcastRead, ConnGoto
<1>2. ASSUME NEW u \in Users, BroadcastPublish(u) PROVE TypeOK'
  <2>1. PICK m \in Msgs : /\ m = made + 1 /\ made' = m
                          /\ chat' = [chat EXCEPT ![m] = "flying"]
                          /\ ReaderIds' = [ReaderIds EXCEPT ![m] = seen[u]]
    BY <1>2 DEF BroadcastPublish
  <2>2. chat' \in [Msgs -> {"none", "flying", "stored", "lost"}] /\ ReaderIds' \in [Msgs -> SUBSET Users]
    BY <2>1
  <2>3. made' \in 0..MaxMsgs
    BY <2>1
  <2>4. conn' \in [Users -> {"idle", "sending", "joining"}] /\ seen' \in [Users -> SUBSET Users]
    BY <1>2 DEF BroadcastPublish, ConnGoto
  <2> QED
    BY <1>2, <2>2, <2>3, <2>4 DEF BroadcastPublish
<1>3. ASSUME NEW u \in Users, JoinRoom(u) PROVE TypeOK'
  BY <1>3 DEF JoinRoom, ConnGoto
<1>4. ASSUME NEW u \in Users, PublishRoomJoin(u) PROVE TypeOK'
  BY <1>4 DEF PublishRoomJoin, ConnGoto
<1>5. ASSUME NEW u \in Users, LeaveGameRoom(u) PROVE TypeOK'
  BY <1>5 DEF LeaveGameRoom
<1>6. ASSUME NEW u \in Users, PublishFails(u) PROVE TypeOK'
  BY <1>6 DEF PublishFails
<1>7. ASSUME NEW n \in Msgs, HandleChatEvent(n) PROVE TypeOK'
  <2>1. Cardinality(Users) - Cardinality(ReaderIds[n]) \in Int
    <3>1. IsFiniteSet(Users) /\ IsFiniteSet(ReaderIds[n])
      BY FS_Subset
    <3> QED
      BY <3>1, FS_CardinalityType
  <2>2. unread' \in [Msgs -> Int] /\ shown' \in [Msgs -> Int]
    BY <1>7, <2>1 DEF HandleChatEvent
  <2>3. chat' \in [Msgs -> {"none", "flying", "stored", "lost"}]
    BY <1>7 DEF HandleChatEvent
  <2> QED
    BY <1>7, <2>2, <2>3 DEF HandleChatEvent
<1>8. ASSUME NEW n \in Msgs, InsertChatMessageFails(n) PROVE TypeOK'
  <2>1. chat' \in [Msgs -> {"none", "flying", "stored", "lost"}] /\ faults' \in Nat
    BY <1>8 DEF InsertChatMessageFails
  <2> QED
    BY <1>8, <2>1 DEF InsertChatMessageFails
<1>9. ASSUME NEW k \in Joins, HandleRoomJoin(k) PROVE TypeOK'
  <2>1. GetUnreadMessagesBefore(joiner[k], JoinAt[k]) \subseteq Msgs
    BY DEF GetUnreadMessagesBefore, UnreadOf
  <2>2. todo' \in [Joins -> SUBSET Msgs]
    BY <1>9, <2>1 DEF HandleRoomJoin
  <2>3. overtaken' \in [Joins -> SUBSET Msgs]
    BY <1>9 DEF HandleRoomJoin
  <2>4. raced' \subseteq Users
    <3>1. CASE Overlaps(k)
      BY <1>9, <3>1 DEF HandleRoomJoin, Goto, HandlerInv
    <3>2. CASE ~Overlaps(k)
      BY <1>9, <3>2 DEF HandleRoomJoin
    <3> QED
      BY <3>1, <3>2
  <2>5. pc' \in [Joins -> HandlerPcs]
    BY <1>9 DEF HandleRoomJoin, Goto
  <2> QED
    BY <1>9, <2>2, <2>3, <2>4, <2>5 DEF HandleRoomJoin
<1>10. ASSUME NEW k \in Joins, InsertChatReader(k) PROVE TypeOK'
  <2>1. PICK m \in todo[k] : /\ rows' = [rows EXCEPT ![m] = @ \cup {k}]
                            /\ todo' = [todo EXCEPT ![k] = @ \ {m}]
    BY <1>10 DEF InsertChatReader
  <2>2. rows' \in [Msgs -> SUBSET Joins] /\ todo' \in [Joins -> SUBSET Msgs]
    BY <2>1
  <2> QED
    BY <1>10, <2>2 DEF InsertChatReader
<1>11. ASSUME NEW k \in Joins, UpdateUnreadCounts(k) PROVE TypeOK'
  BY <1>11 DEF UpdateUnreadCounts, Goto
<1>12. ASSUME NEW k \in Joins, PublishChatLatest(k) PROVE TypeOK'
  BY <1>12 DEF PublishChatLatest, Goto
<1>13. ASSUME NEW k \in Joins, JoinFails(k) PROVE TypeOK'
  <2>1. rows' \in [Msgs -> SUBSET Joins]
    <3>1. CASE rows' = rows
      BY <3>1
    <3>2. CASE \E m \in todo[k] : rows' = [rows EXCEPT ![m] = @ \cup {k}]
      BY <3>2
    <3> QED
      BY <1>13, <3>1, <3>2 DEF JoinFails
  <2>2. pc' \in [Joins -> HandlerPcs] /\ todo' \in [Joins -> SUBSET Msgs] /\ faults' \in Nat
    BY <1>13 DEF JoinFails
  <2> QED
    BY <1>13, <2>1, <2>2 DEF JoinFails
<1>14. ASSUME NEW k \in Joins, CountFails(k) PROVE TypeOK'
  <2>1. pc' \in [Joins -> HandlerPcs] /\ faults' \in Nat
    BY <1>14 DEF CountFails, Goto
  <2> QED
    BY <1>14, <2>1 DEF CountFails
<1>15. ASSUME NEW k \in Joins, LatestFails(k) PROVE TypeOK'
  <2>1. pc' \in [Joins -> HandlerPcs] /\ faults' \in Nat
    BY <1>15 DEF LatestFails, Goto
  <2> QED
    BY <1>15, <2>1 DEF LatestFails
<1>16. CASE Crash
  BY <1>16 DEF Crash
<1>17. CASE UNCHANGED vars
  BY <1>17
<1> QED
  BY <1>1, <1>2, <1>3, <1>4, <1>5, <1>6, <1>7, <1>8, <1>9, <1>10, <1>11, <1>12, <1>13, <1>14, <1>15, <1>16, <1>17 DEF Next

\* Handlers keep to stored messages.
LEMMA HandlerNext == TypeOK /\ HandlerInv /\ NumberInv /\ [Next]_vars => HandlerInv'
<1> SUFFICES ASSUME TypeOK, HandlerInv, NumberInv, [Next]_vars PROVE HandlerInv'
  OBVIOUS
<1> USE ConstantsAssumption DEF TypeOK, Msgs, Joins, HandlerPcs, Stored, vars, connVars, msgVars, eventVars, historyVars, HandlerInv
<1>1. ASSUME NEW u \in Users, BroadcastRead(u) PROVE HandlerInv'
  BY <1>1 DEF BroadcastRead, ConnGoto
<1>2. ASSUME NEW u \in Users, BroadcastPublish(u) PROVE HandlerInv'
  <2>1. PICK m \in Msgs : m = made + 1 /\ chat' = [chat EXCEPT ![m] = "flying"]
    BY <1>2 DEF BroadcastPublish
  <2>2. chat[m] # "stored"
    BY <2>1 DEF NumberInv
  <2>3. \A l \in Msgs : chat[l] = "stored" => chat'[l] = "stored"
    BY <2>1, <2>2
  <2>4. UNCHANGED <<rows, pc, todo, joiner, asked, counted>>
    BY <1>2 DEF BroadcastPublish
  <2> QED
    BY <2>3, <2>4
<1>3. ASSUME NEW u \in Users, JoinRoom(u) PROVE HandlerInv'
  BY <1>3 DEF JoinRoom, ConnGoto
<1>4. ASSUME NEW u \in Users, PublishRoomJoin(u) PROVE HandlerInv'
  BY <1>4 DEF PublishRoomJoin, ConnGoto
<1>5. ASSUME NEW u \in Users, LeaveGameRoom(u) PROVE HandlerInv'
  BY <1>5 DEF LeaveGameRoom
<1>6. ASSUME NEW u \in Users, PublishFails(u) PROVE HandlerInv'
  BY <1>6 DEF PublishFails
<1>7. ASSUME NEW n \in Msgs, HandleChatEvent(n) PROVE HandlerInv'
  BY <1>7 DEF HandleChatEvent
<1>8. ASSUME NEW n \in Msgs, InsertChatMessageFails(n) PROVE HandlerInv'
  BY <1>8 DEF InsertChatMessageFails
<1>9. ASSUME NEW k \in Joins, HandleRoomJoin(k) PROVE HandlerInv'
  <2> DEFINE messages == GetUnreadMessagesBefore(joiner[k], JoinAt[k])
  <2>1. messages \subseteq Stored
    BY DEF GetUnreadMessagesBefore, UnreadOf
  <2> HIDE DEF messages
  <2>2. /\ pc[k] = "flying" /\ pc' = [pc EXCEPT ![k] = IF messages = {} THEN "done" ELSE "insert"]
        /\ todo' = [todo EXCEPT ![k] = messages]
    BY <1>9 DEF HandleRoomJoin, Goto, messages
  <2>3. UNCHANGED <<rows, joiner, asked, chat, counted>>
    BY <1>9 DEF HandleRoomJoin
  <2>4. pc'[k] = (IF messages = {} THEN "done" ELSE "insert") /\ todo'[k] = messages
    BY <2>2
  <2>5. \A j \in Joins : j # k => pc'[j] = pc[j] /\ todo'[j] = todo[j]
    BY <2>2
  <2>6. \A m \in Msgs : k \notin rows[m]
    BY <2>2
  <2>7. Stored' = Stored
    BY <2>3
  <2>8. ASSUME NEW j \in Joins
        PROVE  /\ pc'[j] = "none" \/ joiner[j] \in Users
               /\ j > asked => pc'[j] = "none"
               /\ todo'[j] # {} => pc'[j] = "insert"
               /\ todo'[j] \subseteq Stored
    <3>1. CASE j = k
      BY <2>1, <2>2, <2>4, <3>1
    <3>2. CASE j # k
      BY <2>5, <3>2
    <3> QED
      BY <3>1, <3>2
  <2>9. ASSUME NEW m \in Msgs, NEW j \in rows[m]
        PROVE  pc'[j] \notin {"none", "flying"} /\ m \in Stored /\ m \notin todo'[j]
    BY <2>5, <2>6
  <2>10. \A j \in counted : pc'[j] \in {"publish", "done", "failed"}
    BY <2>2, <2>5
  <2> HIDE DEF TypeOK, NumberInv, Stored
  <2> QED
    BY <2>3, <2>7, <2>8, <2>9, <2>10
<1>10. ASSUME NEW k \in Joins, InsertChatReader(k) PROVE HandlerInv'
  <2>1. PICK m \in todo[k] : /\ rows' = [rows EXCEPT ![m] = @ \cup {k}]
                            /\ todo' = [todo EXCEPT ![k] = @ \ {m}]
    BY <1>10 DEF InsertChatReader
  <2>2. pc[k] = "insert" /\ UNCHANGED <<connVars, msgVars, unread, eventVars, pc, historyVars, shown, faults>>
    BY <1>10 DEF InsertChatReader
  <2>3. m \in Msgs /\ rows'[m] = rows[m] \cup {k} /\ \A l \in Msgs : l # m => rows'[l] = rows[l]
    BY <2>1
  <2>4. todo'[k] = todo[k] \ {m} /\ \A j \in Joins : j # k => todo'[j] = todo[j]
    BY <2>1
  <2>5. \A j \in Joins : todo'[j] \subseteq todo[j]
    BY <2>4
  <2>6. ASSUME NEW l \in Msgs, NEW j \in rows'[l]
        PROVE  pc[j] \notin {"none", "flying"} /\ l \in Stored /\ l \notin todo'[j]
    <3>1. CASE l = m /\ j = k
      BY <2>1, <2>2, <2>4, <3>1
    <3>2. CASE j \in rows[l]
      BY <2>5, <3>2
    <3> QED
      BY <2>3, <3>1, <3>2
  <2> QED
    BY <2>2, <2>5, <2>6
<1>11. ASSUME NEW k \in Joins, UpdateUnreadCounts(k) PROVE HandlerInv'
  BY <1>11 DEF UpdateUnreadCounts, Goto
<1>12. ASSUME NEW k \in Joins, PublishChatLatest(k) PROVE HandlerInv'
  BY <1>12 DEF PublishChatLatest, Goto
<1>13. ASSUME NEW k \in Joins, JoinFails(k) PROVE HandlerInv'
  <2>1. pc[k] \in {"flying", "insert"} /\ pc' = [pc EXCEPT ![k] = "failed"] /\ todo' = [todo EXCEPT ![k] = {}]
    BY <1>13 DEF JoinFails
  <2>2. UNCHANGED <<connVars, msgVars, unread, eventVars, historyVars, shown>> /\ faults' = faults + 1
    BY <1>13 DEF JoinFails
  <2>3. CASE rows' = rows
    BY <2>1, <2>2, <2>3
  <2>4. CASE pc[k] = "insert" /\ \E m \in todo[k] : rows' = [rows EXCEPT ![m] = @ \cup {k}]
    <3>1. PICK m \in todo[k] : rows' = [rows EXCEPT ![m] = @ \cup {k}]
      BY <2>4
    <3>2. m \in Msgs /\ rows'[m] = rows[m] \cup {k} /\ \A l \in Msgs : l # m => rows'[l] = rows[l]
      BY <3>1
    <3> QED
      BY <2>1, <2>2, <2>4, <3>1, <3>2
  <2> QED
    BY <1>13, <2>3, <2>4 DEF JoinFails
<1>14. ASSUME NEW k \in Joins, CountFails(k) PROVE HandlerInv'
  BY <1>14 DEF CountFails, Goto
<1>15. ASSUME NEW k \in Joins, LatestFails(k) PROVE HandlerInv'
  BY <1>15 DEF LatestFails, Goto
<1>16. CASE Crash
  BY <1>16 DEF Crash
<1>17. CASE UNCHANGED vars
  BY <1>17
<1> QED
  BY <1>1, <1>2, <1>3, <1>4, <1>5, <1>6, <1>7, <1>8, <1>9, <1>10, <1>11, <1>12, <1>13, <1>14, <1>15, <1>16, <1>17 DEF Next

\* Messages are numbered as they are sent.
LEMMA NumberNext == TypeOK /\ NumberInv /\ [Next]_vars => NumberInv'
<1> SUFFICES ASSUME TypeOK, NumberInv, [Next]_vars PROVE NumberInv'
  OBVIOUS
<1> USE ConstantsAssumption DEF TypeOK, Msgs, Joins, HandlerPcs, Stored, vars, connVars, msgVars, eventVars, historyVars, NumberInv
<1>1. ASSUME NEW u \in Users, BroadcastRead(u) PROVE NumberInv'
  BY <1>1 DEF BroadcastRead, ConnGoto
<1>2. ASSUME NEW u \in Users, BroadcastPublish(u) PROVE NumberInv'
  BY <1>2 DEF BroadcastPublish, ConnGoto
<1>3. ASSUME NEW u \in Users, JoinRoom(u) PROVE NumberInv'
  BY <1>3 DEF JoinRoom, ConnGoto
<1>4. ASSUME NEW u \in Users, PublishRoomJoin(u) PROVE NumberInv'
  BY <1>4 DEF PublishRoomJoin, ConnGoto
<1>5. ASSUME NEW u \in Users, LeaveGameRoom(u) PROVE NumberInv'
  BY <1>5 DEF LeaveGameRoom
<1>6. ASSUME NEW u \in Users, PublishFails(u) PROVE NumberInv'
  BY <1>6 DEF PublishFails
<1>7. ASSUME NEW n \in Msgs, HandleChatEvent(n) PROVE NumberInv'
  BY <1>7 DEF HandleChatEvent
<1>8. ASSUME NEW n \in Msgs, InsertChatMessageFails(n) PROVE NumberInv'
  BY <1>8 DEF InsertChatMessageFails
<1>9. ASSUME NEW k \in Joins, HandleRoomJoin(k) PROVE NumberInv'
  BY <1>9 DEF HandleRoomJoin, Goto, GetUnreadMessagesBefore, UnreadOf
<1>10. ASSUME NEW k \in Joins, InsertChatReader(k) PROVE NumberInv'
  BY <1>10 DEF InsertChatReader
<1>11. ASSUME NEW k \in Joins, UpdateUnreadCounts(k) PROVE NumberInv'
  BY <1>11 DEF UpdateUnreadCounts, Goto
<1>12. ASSUME NEW k \in Joins, PublishChatLatest(k) PROVE NumberInv'
  BY <1>12 DEF PublishChatLatest, Goto
<1>13. ASSUME NEW k \in Joins, JoinFails(k) PROVE NumberInv'
  BY <1>13 DEF JoinFails
<1>14. ASSUME NEW k \in Joins, CountFails(k) PROVE NumberInv'
  BY <1>14 DEF CountFails, Goto
<1>15. ASSUME NEW k \in Joins, LatestFails(k) PROVE NumberInv'
  BY <1>15 DEF LatestFails, Goto
<1>16. CASE Crash
  BY <1>16 DEF Crash
<1>17. CASE UNCHANGED vars
  BY <1>17
<1> QED
  BY <1>1, <1>2, <1>3, <1>4, <1>5, <1>6, <1>7, <1>8, <1>9, <1>10, <1>11, <1>12, <1>13, <1>14, <1>15, <1>16, <1>17 DEF Next

\* Counts and records are changed for the same handlers.
LEMMA CountNext == TypeOK /\ HandlerInv /\ NumberInv /\ CountInv /\ [Next]_vars => CountInv'
<1> SUFFICES ASSUME TypeOK, HandlerInv, NumberInv, CountInv, [Next]_vars PROVE CountInv'
  OBVIOUS
<1> USE ConstantsAssumption DEF TypeOK, Msgs, Joins, HandlerPcs, Stored, vars, connVars, msgVars, eventVars, historyVars, HandlerInv, NumberInv, CountInv
<1>1. ASSUME NEW u \in Users, BroadcastRead(u) PROVE CountInv'
  BY <1>1 DEF BroadcastRead, ConnGoto
<1>2. ASSUME NEW u \in Users, BroadcastPublish(u) PROVE CountInv'
  BY <1>2 DEF BroadcastPublish, ConnGoto
<1>3. ASSUME NEW u \in Users, JoinRoom(u) PROVE CountInv'
  BY <1>3 DEF JoinRoom, ConnGoto
<1>4. ASSUME NEW u \in Users, PublishRoomJoin(u) PROVE CountInv'
  BY <1>4 DEF PublishRoomJoin, ConnGoto
<1>5. ASSUME NEW u \in Users, LeaveGameRoom(u) PROVE CountInv'
  BY <1>5 DEF LeaveGameRoom
<1>6. ASSUME NEW u \in Users, PublishFails(u) PROVE CountInv'
  BY <1>6 DEF PublishFails
<1>7. ASSUME NEW n \in Msgs, HandleChatEvent(n) PROVE CountInv'
  <2>1. unread'[n] = Cardinality(Users) - Cardinality(ReaderIds[n]) /\ \A m \in Msgs : m # n => unread'[m] = unread[m]
    BY <1>7 DEF HandleChatEvent
  <2>2. chat[n] # "stored" /\ \A m \in Msgs : m # n => chat'[m] = chat[m]
    BY <1>7 DEF HandleChatEvent
  <2>3. UNCHANGED <<ReaderIds, rows, counted>>
    BY <1>7 DEF HandleChatEvent
  <2>4. Cardinality(Users) - Cardinality(ReaderIds[n]) \in Int
    <3>1. IsFiniteSet(Users) /\ IsFiniteSet(ReaderIds[n])
      BY FS_Subset
    <3> QED
      BY <3>1, FS_CardinalityType
  <2>5. unread'[n] = Cardinality(Users) - Cardinality(ReaderIds[n]) - Cardinality(rows[n] \cap counted)
    <3>1. rows[n] \cap counted = {}
      BY <2>2
    <3>2. Cardinality(rows[n] \cap counted) = 0
      BY <3>1, FS_EmptySet
    <3> QED
      BY <2>1, <2>4, <3>2
  <2>6. \A m \in Msgs : m # n /\ chat'[m] = "stored" =>
          unread'[m] = Cardinality(Users) - Cardinality(ReaderIds[m]) - Cardinality(rows[m] \cap counted)
    BY <2>1, <2>2
  <2>7. \A m \in Msgs : chat'[m] = "stored" =>
          unread'[m] = Cardinality(Users) - Cardinality(ReaderIds[m]) - Cardinality(rows[m] \cap counted)
    BY <2>5, <2>6
  <2> QED
    BY <2>3, <2>7
<1>8. ASSUME NEW n \in Msgs, InsertChatMessageFails(n) PROVE CountInv'
  BY <1>8 DEF InsertChatMessageFails
<1>9. ASSUME NEW k \in Joins, HandleRoomJoin(k) PROVE CountInv'
  BY <1>9 DEF HandleRoomJoin, Goto, GetUnreadMessagesBefore, UnreadOf
<1>10. ASSUME NEW k \in Joins, InsertChatReader(k) PROVE CountInv'
  <2>1. PICK m \in todo[k] : rows' = [rows EXCEPT ![m] = @ \cup {k}]
    BY <1>10 DEF InsertChatReader
  <2>2. k \notin counted
    BY <1>10 DEF InsertChatReader
  <2>3. \A l \in Msgs : rows'[l] \cap counted = rows[l] \cap counted
    BY <2>1, <2>2
  <2>4. UNCHANGED <<chat, unread, ReaderIds, counted>>
    BY <1>10 DEF InsertChatReader
  <2> QED
    BY <2>3, <2>4
<1>11. ASSUME NEW k \in Joins, UpdateUnreadCounts(k) PROVE CountInv'
  <2>1. k \notin counted
    BY <1>11 DEF UpdateUnreadCounts, Goto
  <2>2. counted' = counted \cup {k} /\ UNCHANGED <<chat, ReaderIds, rows>>
    BY <1>11 DEF UpdateUnreadCounts
  <2> SUFFICES ASSUME NEW m \in Stored
               PROVE unread'[m] = Cardinality(Users) - Cardinality(ReaderIds[m]) - Cardinality(rows[m] \cap counted')
    BY <2>2
  <2>3. unread[m] = Cardinality(Users) - Cardinality(ReaderIds[m]) - Cardinality(rows[m] \cap counted)
    OBVIOUS
  <2>4. IsFiniteSet(rows[m] \cap counted)
    <3>1. IsFiniteSet(rows[m])
      BY RowsFinite
    <3> QED
      BY <3>1, FS_Subset
  <2>5. Cardinality(Users) \in Nat /\ Cardinality(ReaderIds[m]) \in Nat /\ Cardinality(rows[m] \cap counted) \in Nat
    <3>1. IsFiniteSet(Users) /\ IsFiniteSet(ReaderIds[m])
      BY FS_Subset
    <3> QED
      BY <3>1, <2>4, FS_CardinalityType
  <2>6. CASE k \in rows[m]
    <3>1. rows[m] \cap counted' = (rows[m] \cap counted) \cup {k}
      BY <2>2, <2>6
    <3>2. Cardinality(rows[m] \cap counted') = Cardinality(rows[m] \cap counted) + 1
      BY <2>1, <2>4, <3>1, FS_AddElement
    <3>3. unread'[m] = unread[m] - 1
      BY <1>11, <2>6 DEF UpdateUnreadCounts
    <3> QED
      BY <2>3, <2>5, <3>2, <3>3
  <2>7. CASE k \notin rows[m]
    <3>1. rows[m] \cap counted' = rows[m] \cap counted
      BY <2>2, <2>7
    <3>2. unread'[m] = unread[m]
      BY <1>11, <2>7 DEF UpdateUnreadCounts
    <3> QED
      BY <2>3, <3>1, <3>2
  <2> QED
    BY <2>6, <2>7
<1>12. ASSUME NEW k \in Joins, PublishChatLatest(k) PROVE CountInv'
  BY <1>12 DEF PublishChatLatest, Goto
<1>13. ASSUME NEW k \in Joins, JoinFails(k) PROVE CountInv'
  <2>1. k \notin counted
    BY <1>13 DEF JoinFails
  <2>2. \A l \in Msgs : rows'[l] \cap counted = rows[l] \cap counted
    <3>1. CASE rows' = rows
      BY <3>1
    <3>2. CASE \E m \in todo[k] : rows' = [rows EXCEPT ![m] = @ \cup {k}]
      BY <2>1, <3>2
    <3> QED
      BY <1>13, <3>1, <3>2 DEF JoinFails
  <2>3. UNCHANGED <<chat, unread, ReaderIds, counted>>
    BY <1>13 DEF JoinFails
  <2> QED
    BY <2>2, <2>3
<1>14. ASSUME NEW k \in Joins, CountFails(k) PROVE CountInv'
  BY <1>14 DEF CountFails, Goto
<1>15. ASSUME NEW k \in Joins, LatestFails(k) PROVE CountInv'
  BY <1>15 DEF LatestFails, Goto
<1>16. CASE Crash
  BY <1>16 DEF Crash
<1>17. CASE UNCHANGED vars
  BY <1>17
<1> QED
  BY <1>1, <1>2, <1>3, <1>4, <1>5, <1>6, <1>7, <1>8, <1>9, <1>10, <1>11, <1>12, <1>13, <1>14, <1>15, <1>16, <1>17 DEF Next

\* Only a fault separates a record from its count.
LEMMA OwedNext == TypeOK /\ HandlerInv /\ OwedInv /\ [Next]_vars => OwedInv'
<1> SUFFICES ASSUME TypeOK, HandlerInv, OwedInv, [Next]_vars PROVE OwedInv'
  OBVIOUS
<1> USE ConstantsAssumption DEF TypeOK, Msgs, Joins, HandlerPcs, Stored, vars, connVars, msgVars, eventVars, historyVars, HandlerInv, OwedInv
<1>1. ASSUME NEW u \in Users, BroadcastRead(u) PROVE OwedInv'
  BY <1>1 DEF BroadcastRead, ConnGoto
<1>2. ASSUME NEW u \in Users, BroadcastPublish(u) PROVE OwedInv'
  BY <1>2 DEF BroadcastPublish, ConnGoto
<1>3. ASSUME NEW u \in Users, JoinRoom(u) PROVE OwedInv'
  BY <1>3 DEF JoinRoom, ConnGoto
<1>4. ASSUME NEW u \in Users, PublishRoomJoin(u) PROVE OwedInv'
  BY <1>4 DEF PublishRoomJoin, ConnGoto
<1>5. ASSUME NEW u \in Users, LeaveGameRoom(u) PROVE OwedInv'
  BY <1>5 DEF LeaveGameRoom
<1>6. ASSUME NEW u \in Users, PublishFails(u) PROVE OwedInv'
  BY <1>6 DEF PublishFails
<1>7. ASSUME NEW n \in Msgs, HandleChatEvent(n) PROVE OwedInv'
  BY <1>7 DEF HandleChatEvent
<1>8. ASSUME NEW n \in Msgs, InsertChatMessageFails(n) PROVE OwedInv'
  BY <1>8 DEF InsertChatMessageFails
<1>9. ASSUME NEW k \in Joins, HandleRoomJoin(k) PROVE OwedInv'
  <2>1. \A m \in Msgs : k \notin rows[m]
    BY <1>9 DEF HandleRoomJoin, Goto
  <2>2. UNCHANGED <<rows, counted, faults>>
    BY <1>9 DEF HandleRoomJoin
  <2>3. pc'[k] # "failed" /\ \A j \in Joins : j # k => pc'[j] = pc[j]
    BY <1>9 DEF HandleRoomJoin, Goto
  <2> SUFFICES ASSUME faults = 0, NEW j \in Joins
               PROVE /\ pc'[j] # "failed"
                     /\ pc'[j] \in {"publish", "done"} => \A m \in Msgs : j \in rows[m] => j \in counted
    BY <2>2
  <2>4. CASE j = k
    BY <2>1, <2>3, <2>4
  <2>5. CASE j # k
    BY <2>3, <2>5
  <2> QED
    BY <2>4, <2>5
<1>10. ASSUME NEW k \in Joins, InsertChatReader(k) PROVE OwedInv'
  BY <1>10 DEF InsertChatReader
<1>11. ASSUME NEW k \in Joins, UpdateUnreadCounts(k) PROVE OwedInv'
  BY <1>11 DEF UpdateUnreadCounts, Goto
<1>12. ASSUME NEW k \in Joins, PublishChatLatest(k) PROVE OwedInv'
  BY <1>12 DEF PublishChatLatest, Goto
<1>13. ASSUME NEW k \in Joins, JoinFails(k) PROVE OwedInv'
  BY <1>13 DEF JoinFails
<1>14. ASSUME NEW k \in Joins, CountFails(k) PROVE OwedInv'
  BY <1>14 DEF CountFails, Goto
<1>15. ASSUME NEW k \in Joins, LatestFails(k) PROVE OwedInv'
  BY <1>15 DEF LatestFails, Goto
<1>16. CASE Crash
  BY <1>16 DEF Crash
<1>17. CASE UNCHANGED vars
  BY <1>17
<1> QED
  BY <1>1, <1>2, <1>3, <1>4, <1>5, <1>6, <1>7, <1>8, <1>9, <1>10, <1>11, <1>12, <1>13, <1>14, <1>15, <1>16, <1>17 DEF Next

\* A query sees the records of all handlers that are not about to insert one.
LEMMA RaceNext == TypeOK /\ HandlerInv /\ RaceInv /\ [Next]_vars => RaceInv'
<1> SUFFICES ASSUME TypeOK, HandlerInv, RaceInv, [Next]_vars, NEW m \in Msgs, NEW i \in Joins, NEW j \in Joins,
                    i # j, joiner'[i] = joiner'[j], m \in todo'[i] \/ i \in rows'[m],
                    m \in todo'[j] \/ j \in rows'[m]
             PROVE joiner'[j] \in raced'
  BY DEF RaceInv, Msgs, Joins
<1> USE ConstantsAssumption DEF TypeOK, Msgs, Joins, HandlerPcs, Stored, vars, connVars, msgVars, eventVars, historyVars, HandlerInv
<1>0. /\ i # j /\ joiner[i] = joiner[j]
      /\ m \in todo[i] \/ i \in rows[m]
      /\ m \in todo[j] \/ j \in rows[m]
      => joiner[j] \in raced
  BY DEF RaceInv
<1>1. ASSUME NEW u \in Users, BroadcastRead(u) PROVE joiner'[j] \in raced'
  BY <1>0, <1>1 DEF BroadcastRead, ConnGoto
<1>2. ASSUME NEW u \in Users, BroadcastPublish(u) PROVE joiner'[j] \in raced'
  BY <1>0, <1>2 DEF BroadcastPublish, ConnGoto
<1>3. ASSUME NEW u \in Users, JoinRoom(u) PROVE joiner'[j] \in raced'
  BY <1>0, <1>3 DEF JoinRoom, ConnGoto
<1>4. ASSUME NEW u \in Users, PublishRoomJoin(u) PROVE joiner'[j] \in raced'
  <2>1. PICK l \in Joins : l = asked + 1 /\ joiner' = [joiner EXCEPT ![l] = u]
    BY <1>4 DEF PublishRoomJoin
  <2>2. UNCHANGED <<rows, todo, raced>>
    BY <1>4 DEF PublishRoomJoin
  <2>3. pc[l] = "none" /\ todo[l] = {} /\ l \notin rows[m]
    <3>1. pc[l] = "none"
      BY <2>1
    <3> QED
      BY <3>1
  <2>4. i # l /\ j # l
    BY <2>2, <2>3
  <2> QED
    BY <1>0, <2>1, <2>2, <2>4
<1>5. ASSUME NEW u \in Users, LeaveGameRoom(u) PROVE joiner'[j] \in raced'
  BY <1>0, <1>5 DEF LeaveGameRoom
<1>6. ASSUME NEW u \in Users, PublishFails(u) PROVE joiner'[j] \in raced'
  BY <1>0, <1>6 DEF PublishFails
<1>7. ASSUME NEW n \in Msgs, HandleChatEvent(n) PROVE joiner'[j] \in raced'
  BY <1>0, <1>7 DEF HandleChatEvent
<1>8. ASSUME NEW n \in Msgs, InsertChatMessageFails(n) PROVE joiner'[j] \in raced'
  BY <1>0, <1>8 DEF InsertChatMessageFails
<1>9. ASSUME NEW k \in Joins, HandleRoomJoin(k) PROVE joiner'[j] \in raced'
  <2>1. pc[k] = "flying" /\ todo' = [todo EXCEPT ![k] = GetUnreadMessagesBefore(joiner[k], JoinAt[k])]
    BY <1>9 DEF HandleRoomJoin, Goto
  <2>2. UNCHANGED <<rows, joiner>> /\ raced' = IF Overlaps(k) THEN raced \cup {joiner[k]} ELSE raced
    BY <1>9 DEF HandleRoomJoin
  <2>3. CASE i # k /\ j # k
    BY <1>0, <2>1, <2>2, <2>3
  <2>4. ASSUME NEW l \in Joins, l # k, joiner[l] = joiner[k], m \in todo'[k] \/ k \in rows[m],
               m \in todo[l] \/ l \in rows[m]
        PROVE Overlaps(k)
    <3>1. k \notin rows[m]
      BY <2>1
    <3>2. \A x \in rows[m] : joiner[x] # joiner[k]
      BY <2>1, <2>4, <3>1 DEF GetUnreadMessagesBefore, UnreadOf
    <3>3. m \in todo[l]
      BY <2>4, <3>2
    <3> QED
      BY <2>4, <3>3 DEF Overlaps
  <2>5. CASE j = k
    <3>1. todo'[i] = todo[i]
      BY <2>1, <2>5
    <3>2. Overlaps(k)
      BY <2>2, <2>4, <2>5, <3>1
    <3> QED
      BY <2>2, <2>5, <3>2
  <2>6. CASE i = k
    <3>1. todo'[j] = todo[j]
      BY <2>1, <2>6
    <3>2. Overlaps(k)
      BY <2>2, <2>4, <2>6, <3>1
    <3> QED
      BY <2>2, <2>6, <3>2
  <2> QED
    BY <2>3, <2>5, <2>6
<1>10. ASSUME NEW k \in Joins, InsertChatReader(k) PROVE joiner'[j] \in raced'
  <2>1. PICK l \in todo[k] : /\ rows' = [rows EXCEPT ![l] = @ \cup {k}]
                            /\ todo' = [todo EXCEPT ![k] = @ \ {l}]
    BY <1>10 DEF InsertChatReader
  <2>2. \A x \in Joins : m \in todo'[x] \/ x \in rows'[m] => m \in todo[x] \/ x \in rows[m]
    BY <2>1
  <2>3. UNCHANGED <<joiner, raced>>
    BY <1>10 DEF InsertChatReader
  <2> QED
    BY <1>0, <2>2, <2>3
<1>11. ASSUME NEW k \in Joins, UpdateUnreadCounts(k) PROVE joiner'[j] \in raced'
  BY <1>0, <1>11 DEF UpdateUnreadCounts, Goto
<1>12. ASSUME NEW k \in Joins, PublishChatLatest(k) PROVE joiner'[j] \in raced'
  BY <1>0, <1>12 DEF PublishChatLatest, Goto
<1>13. ASSUME NEW k \in Joins, JoinFails(k) PROVE joiner'[j] \in raced'
  <2>1. rows' = rows \/ \E l \in todo[k] : rows' = [rows EXCEPT ![l] = @ \cup {k}]
    BY <1>13 DEF JoinFails
  <2>2. todo' = [todo EXCEPT ![k] = {}] /\ UNCHANGED <<joiner, raced>>
    BY <1>13 DEF JoinFails
  <2>3. \A x \in Joins : m \in todo'[x] \/ x \in rows'[m] => m \in todo[x] \/ x \in rows[m]
    <3>1. CASE rows' = rows
      BY <2>2, <3>1
    <3>2. ASSUME NEW l \in todo[k], rows' = [rows EXCEPT ![l] = @ \cup {k}]
          PROVE \A x \in Joins : m \in todo'[x] \/ x \in rows'[m] => m \in todo[x] \/ x \in rows[m]
      BY <2>2, <3>2
    <3> QED
      BY <2>1, <3>1, <3>2
  <2> QED
    BY <1>0, <2>2, <2>3
<1>14. ASSUME NEW k \in Joins, CountFails(k) PROVE joiner'[j] \in raced'
  BY <1>0, <1>14 DEF CountFails, Goto
<1>15. ASSUME NEW k \in Joins, LatestFails(k) PROVE joiner'[j] \in raced'
  BY <1>0, <1>15 DEF LatestFails, Goto
<1>16. CASE Crash
  BY <1>0, <1>16 DEF Crash
<1>17. CASE UNCHANGED vars
  BY <1>0, <1>17
<1> QED
  BY <1>1, <1>2, <1>3, <1>4, <1>5, <1>6, <1>7, <1>8, <1>9, <1>10, <1>11, <1>12, <1>13, <1>14, <1>15, <1>16, <1>17 DEF Next

\* Records are never taken away.
LEMMA BadgeNext == TypeOK /\ HandlerInv /\ NumberInv /\ BadgeInv /\ [Next]_vars => BadgeInv'
<1> SUFFICES ASSUME TypeOK, HandlerInv, NumberInv, BadgeInv, [Next]_vars, NEW j \in Joins, NEW m \in Msgs,
                    pc'[j] \in {"insert", "publish", "done"}, \A i \in rows'[m] : joiner'[i] # joiner'[j]
             PROVE (m > JoinAt[j] \/ m \in overtaken[j] \/ m \in todo[j])'
  BY DEF BadgeInv, Msgs, Joins
<1> USE ConstantsAssumption DEF TypeOK, Msgs, Joins, HandlerPcs, Stored, vars, connVars, msgVars, eventVars, historyVars, HandlerInv, NumberInv
<1>0. /\ pc[j] \in {"insert", "publish", "done"}
      /\ \A i \in rows[m] : joiner[i] # joiner[j]
      => m > JoinAt[j] \/ m \in overtaken[j] \/ m \in todo[j]
  BY DEF BadgeInv
<1>1. ASSUME NEW u \in Users, BroadcastRead(u) PROVE (m > JoinAt[j] \/ m \in overtaken[j] \/ m \in todo[j])'
  BY <1>0, <1>1 DEF BroadcastRead, ConnGoto
<1>2. ASSUME NEW u \in Users, BroadcastPublish(u) PROVE (m > JoinAt[j] \/ m \in overtaken[j] \/ m \in todo[j])'
  BY <1>0, <1>2 DEF BroadcastPublish, ConnGoto
<1>3. ASSUME NEW u \in Users, JoinRoom(u) PROVE (m > JoinAt[j] \/ m \in overtaken[j] \/ m \in todo[j])'
  BY <1>0, <1>3 DEF JoinRoom, ConnGoto
<1>4. ASSUME NEW u \in Users, PublishRoomJoin(u) PROVE (m > JoinAt[j] \/ m \in overtaken[j] \/ m \in todo[j])'
  <2>1. PICK l \in Joins : /\ l = asked + 1 /\ joiner' = [joiner EXCEPT ![l] = u]
                           /\ JoinAt' = [JoinAt EXCEPT ![l] = made] /\ pc' = [pc EXCEPT ![l] = "flying"]
    BY <1>4 DEF PublishRoomJoin
  <2>2. UNCHANGED <<rows, todo, overtaken>>
    BY <1>4 DEF PublishRoomJoin
  <2>3. pc[l] = "none" /\ l # j
    BY <2>1
  <2>4. l \notin rows[m]
    BY <2>3
  <2>5. \A i \in rows[m] : joiner'[i] = joiner[i]
    BY <2>1, <2>4
  <2> QED
    BY <1>0, <2>1, <2>2, <2>3, <2>5
<1>5. ASSUME NEW u \in Users, LeaveGameRoom(u) PROVE (m > JoinAt[j] \/ m \in overtaken[j] \/ m \in todo[j])'
  BY <1>0, <1>5 DEF LeaveGameRoom
<1>6. ASSUME NEW u \in Users, PublishFails(u) PROVE (m > JoinAt[j] \/ m \in overtaken[j] \/ m \in todo[j])'
  BY <1>0, <1>6 DEF PublishFails
<1>7. ASSUME NEW n \in Msgs, HandleChatEvent(n) PROVE (m > JoinAt[j] \/ m \in overtaken[j] \/ m \in todo[j])'
  BY <1>0, <1>7 DEF HandleChatEvent
<1>8. ASSUME NEW n \in Msgs, InsertChatMessageFails(n) PROVE (m > JoinAt[j] \/ m \in overtaken[j] \/ m \in todo[j])'
  BY <1>0, <1>8 DEF InsertChatMessageFails
<1>9. ASSUME NEW k \in Joins, HandleRoomJoin(k) PROVE (m > JoinAt[j] \/ m \in overtaken[j] \/ m \in todo[j])'
  <2>1. /\ todo' = [todo EXCEPT ![k] = GetUnreadMessagesBefore(joiner[k], JoinAt[k])]
        /\ overtaken' = [overtaken EXCEPT ![k] = {l \in Msgs : l <= JoinAt[k]} \ Stored]
    BY <1>9 DEF HandleRoomJoin
  <2>2. UNCHANGED <<rows, joiner, JoinAt>> /\ \A x \in Joins : x # k => pc'[x] = pc[x]
    BY <1>9 DEF HandleRoomJoin, Goto
  <2>3. CASE j = k
    <3>1. todo'[k] = {l \in Stored : (\A i \in rows[l] : joiner[i] # joiner[k]) /\ l <= JoinAt[k]}
      BY <2>1 DEF GetUnreadMessagesBefore, UnreadOf
    <3>2. overtaken'[k] = {l \in Msgs : l <= JoinAt[k]} \ Stored
      BY <2>1
    <3>3. JoinAt[k] \in Nat /\ m \in Nat
      OBVIOUS
    <3>4. CASE m > JoinAt[k]
      BY <2>2, <2>3, <3>4
    <3>5. CASE m <= JoinAt[k]
      BY <2>2, <2>3, <3>1, <3>2, <3>5
    <3> QED
      BY <3>3, <3>4, <3>5
  <2>4. CASE j # k
    BY <1>0, <2>1, <2>2, <2>4
  <2> QED
    BY <2>3, <2>4
<1>10. ASSUME NEW k \in Joins, InsertChatReader(k) PROVE (m > JoinAt[j] \/ m \in overtaken[j] \/ m \in todo[j])'
  <2>1. PICK l \in todo[k] : /\ rows' = [rows EXCEPT ![l] = @ \cup {k}]
                            /\ todo' = [todo EXCEPT ![k] = @ \ {l}]
    BY <1>10 DEF InsertChatReader
  <2>2. UNCHANGED <<pc, joiner, JoinAt, overtaken>>
    BY <1>10 DEF InsertChatReader
  <2>3. rows[m] \subseteq rows'[m] /\ (m = l => k \in rows'[m])
    BY <2>1
  <2>4. m \in todo[j] => m \in todo'[j]
    BY <2>1, <2>2, <2>3
  <2> QED
    BY <1>0, <2>2, <2>3, <2>4
<1>11. ASSUME NEW k \in Joins, UpdateUnreadCounts(k) PROVE (m > JoinAt[j] \/ m \in overtaken[j] \/ m \in todo[j])'
  BY <1>0, <1>11 DEF UpdateUnreadCounts, Goto
<1>12. ASSUME NEW k \in Joins, PublishChatLatest(k) PROVE (m > JoinAt[j] \/ m \in overtaken[j] \/ m \in todo[j])'
  BY <1>0, <1>12 DEF PublishChatLatest, Goto
<1>13. ASSUME NEW k \in Joins, JoinFails(k) PROVE (m > JoinAt[j] \/ m \in overtaken[j] \/ m \in todo[j])'
  <2>1. rows' = rows \/ \E l \in todo[k] : rows' = [rows EXCEPT ![l] = @ \cup {k}]
    BY <1>13 DEF JoinFails
  <2>2. rows[m] \subseteq rows'[m]
    <3>1. CASE rows' = rows
      BY <3>1
    <3>2. ASSUME NEW l \in todo[k], rows' = [rows EXCEPT ![l] = @ \cup {k}] PROVE rows[m] \subseteq rows'[m]
      BY <3>2
    <3> QED
      BY <2>1, <3>1, <3>2
  <2>3. todo' = [todo EXCEPT ![k] = {}] /\ pc' = [pc EXCEPT ![k] = "failed"]
    BY <1>13 DEF JoinFails
  <2>4. UNCHANGED <<joiner, JoinAt, overtaken>>
    BY <1>13 DEF JoinFails
  <2>5. j # k /\ pc'[j] = pc[j] /\ todo'[j] = todo[j]
    BY <2>3
  <2> QED
    BY <1>0, <2>2, <2>4, <2>5
<1>14. ASSUME NEW k \in Joins, CountFails(k) PROVE (m > JoinAt[j] \/ m \in overtaken[j] \/ m \in todo[j])'
  BY <1>0, <1>14 DEF CountFails, Goto
<1>15. ASSUME NEW k \in Joins, LatestFails(k) PROVE (m > JoinAt[j] \/ m \in overtaken[j] \/ m \in todo[j])'
  BY <1>0, <1>15 DEF LatestFails, Goto
<1>16. CASE Crash
  <2>1. UNCHANGED <<joiner, JoinAt, overtaken, rows>>
    BY <1>16 DEF Crash
  <2>2. pc[j] = "done" /\ todo[j] = {}
    BY <1>16 DEF Crash
  <2> QED
    BY <1>0, <2>1, <2>2
<1>17. CASE UNCHANGED vars
  BY <1>0, <1>17
<1> QED
  BY <1>1, <1>2, <1>3, <1>4, <1>5, <1>6, <1>7, <1>8, <1>9, <1>10, <1>11, <1>12, <1>13, <1>14, <1>15, <1>16, <1>17 DEF Next

\* Counts are changed before they are announced.
LEMMA ShownNext == TypeOK /\ HandlerInv /\ ShownInv /\ [Next]_vars => ShownInv'
<1> SUFFICES ASSUME TypeOK, HandlerInv, ShownInv, [Next]_vars PROVE ShownInv'
  OBVIOUS
<1> USE ConstantsAssumption DEF TypeOK, Msgs, Joins, HandlerPcs, Stored, vars, connVars, msgVars, eventVars, historyVars, HandlerInv, ShownInv
<1>1. ASSUME NEW u \in Users, BroadcastRead(u) PROVE ShownInv'
  BY <1>1 DEF BroadcastRead, ConnGoto
<1>2. ASSUME NEW u \in Users, BroadcastPublish(u) PROVE ShownInv'
  BY <1>2 DEF BroadcastPublish, ConnGoto
<1>3. ASSUME NEW u \in Users, JoinRoom(u) PROVE ShownInv'
  BY <1>3 DEF JoinRoom, ConnGoto
<1>4. ASSUME NEW u \in Users, PublishRoomJoin(u) PROVE ShownInv'
  BY <1>4 DEF PublishRoomJoin, ConnGoto
<1>5. ASSUME NEW u \in Users, LeaveGameRoom(u) PROVE ShownInv'
  BY <1>5 DEF LeaveGameRoom
<1>6. ASSUME NEW u \in Users, PublishFails(u) PROVE ShownInv'
  BY <1>6 DEF PublishFails
<1>7. ASSUME NEW n \in Msgs, HandleChatEvent(n) PROVE ShownInv'
  BY <1>7 DEF HandleChatEvent
<1>8. ASSUME NEW n \in Msgs, InsertChatMessageFails(n) PROVE ShownInv'
  BY <1>8 DEF InsertChatMessageFails
<1>9. ASSUME NEW k \in Joins, HandleRoomJoin(k) PROVE ShownInv'
  BY <1>9 DEF HandleRoomJoin, Goto, GetUnreadMessagesBefore, UnreadOf
<1>10. ASSUME NEW k \in Joins, InsertChatReader(k) PROVE ShownInv'
  BY <1>10 DEF InsertChatReader
<1>11. ASSUME NEW k \in Joins, UpdateUnreadCounts(k) PROVE ShownInv'
  BY <1>11 DEF UpdateUnreadCounts, Goto
<1>12. ASSUME NEW k \in Joins, PublishChatLatest(k) PROVE ShownInv'
  BY <1>12 DEF PublishChatLatest, Goto
<1>13. ASSUME NEW k \in Joins, JoinFails(k) PROVE ShownInv'
  BY <1>13 DEF JoinFails
<1>14. ASSUME NEW k \in Joins, CountFails(k) PROVE ShownInv'
  BY <1>14 DEF CountFails, Goto
<1>15. ASSUME NEW k \in Joins, LatestFails(k) PROVE ShownInv'
  BY <1>15 DEF LatestFails, Goto
<1>16. CASE Crash
  BY <1>16 DEF Crash
<1>17. CASE UNCHANGED vars
  BY <1>17
<1> QED
  BY <1>1, <1>2, <1>3, <1>4, <1>5, <1>6, <1>7, <1>8, <1>9, <1>10, <1>11, <1>12, <1>13, <1>14, <1>15, <1>16, <1>17 DEF Next

-----------------------------------------------------------------------------
\* The theorems.

\* The conjunction is inductive.
THEOREM Invariance == Spec => []IInv
<1>1. Init => IInv
  <2> SUFFICES ASSUME Init PROVE IInv
    OBVIOUS
  <2> USE ConstantsAssumption DEF Init, Msgs, Joins, Stored
  <2>1. TypeOK
    BY DEF TypeOK, HandlerPcs
  <2>2. HandlerInv /\ NumberInv /\ CountInv
    BY DEF HandlerInv, NumberInv, CountInv
  <2>3. OwedInv /\ RaceInv /\ BadgeInv /\ ShownInv
    BY DEF OwedInv, RaceInv, BadgeInv, ShownInv
  <2> QED
    BY <2>1, <2>2, <2>3 DEF IInv
<1>2. IInv /\ [Next]_vars => IInv'
  BY TypeNext, HandlerNext, NumberNext, CountNext, OwedNext, RaceNext, BadgeNext, ShownNext DEF IInv
<1> QED
  BY <1>1, <1>2, PTL DEF Spec

\* Every variable keeps its type, whatever users, handlers and faults do.
THEOREM TypeCorrect == Spec => []TypeOK
  BY Invariance, PTL DEF IInv

\* At rest and without faults a count follows from the message's readers.
THEOREM CountsDoSettle == Spec => []CountsSettle
<1>1. IInv => CountsSettle
  <2> SUFFICES ASSUME IInv, faults = 0, Quiet, NEW m \in Stored
               PROVE unread[m] = Cardinality(Users) - Cardinality(ReaderIds[m]) - Cardinality(rows[m])
    BY DEF CountsSettle
  <2>1. \A j \in rows[m] : j \in Joins /\ pc[j] \in {"publish", "done"}
    BY DEF IInv, TypeOK, HandlerInv, OwedInv, Quiet, Stored, HandlerPcs
  <2>2. rows[m] \subseteq counted
    BY <2>1 DEF IInv, OwedInv, Stored
  <2>3. rows[m] \cap counted = rows[m]
    BY <2>2
  <2> QED
    BY <2>3 DEF IInv, CountInv
<1> QED
  BY <1>1, Invariance, PTL

\* Whatever fails, a user is recorded twice only if his joins were handled at once.
THEOREM DoubleReadsAreRaced == Spec => []DoubleReadIsRaced
<1>1. IInv => DoubleReadIsRaced
  BY DEF IInv, TypeOK, RaceInv, DoubleReadIsRaced
<1> QED
  BY <1>1, Invariance, PTL

\* As many handlers have recorded a message as it has readers, if none is recorded twice.
LEMMA ReadersCount ==
  ASSUME TypeOK, HandlerInv, RaceInv, NEW m \in Msgs, ReadersOf(m) \cap raced = {}
  PROVE  /\ ReadersOf(m) \subseteq Users
         /\ Cardinality(ReadersOf(m)) = Cardinality(rows[m])
<1> DEFINE f == [j \in rows[m] |-> joiner[j]]
<1>1. rows[m] \subseteq Joins
  BY DEF TypeOK
<1>2. ReadersOf(m) \subseteq Users
  BY <1>1 DEF ReadersOf, HandlerInv
<1>3. f \in [rows[m] -> ReadersOf(m)]
  BY DEF ReadersOf
<1>4. \A i, j \in rows[m] : f[i] = f[j] => i = j
  BY <1>1 DEF RaceInv, ReadersOf
<1>5. \A u \in ReadersOf(m) : \E j \in rows[m] : f[j] = u
  BY DEF ReadersOf
<1>6. f \in Bijection(rows[m], ReadersOf(m))
  <2>1. f \in Injection(rows[m], ReadersOf(m))
    BY <1>3, <1>4 DEF Injection, IsInjective
  <2>2. f \in Surjection(rows[m], ReadersOf(m))
    BY <1>3, <1>5 DEF Surjection
  <2> QED
    BY <2>1, <2>2 DEF Bijection
<1>7. ExistsBijection(rows[m], ReadersOf(m))
  BY <1>6 DEF ExistsBijection
<1> QED
  BY <1>2, <1>7, RowsFinite, FS_Bijection

\* An unread count is too low only after a race, or if a member who had the room open
\* when the message was sent has joined again.
THEOREM UndercountsAreExplained == Spec => []UndercountExplained
<1>1. IInv => UndercountExplained
  <2> SUFFICES ASSUME IInv, NEW m \in Stored, ReadersOf(m) \cap (ReaderIds[m] \cup raced) = {}
               PROVE unread[m] >= Cardinality(Users \ (ReaderIds[m] \cup ReadersOf(m)))
    BY DEF UndercountExplained
  <2> USE DEF IInv
  <2> DEFINE A == ReaderIds[m]
             B == ReadersOf(m)
  <2>1. m \in Msgs
    BY DEF Stored
  <2>2. B \subseteq Users /\ Cardinality(B) = Cardinality(rows[m])
    BY <2>1, ReadersCount
  <2>3. A \subseteq Users /\ A \cap B = {}
    BY <2>1 DEF TypeOK
  <2>4. IsFiniteSet(Users) /\ IsFiniteSet(A) /\ IsFiniteSet(B)
    BY <2>2, <2>3, ConstantsAssumption, FS_Subset
  <2>5. Cardinality(A \cup B) = Cardinality(A) + Cardinality(B)
    <3>1. Cardinality(A \cup B) = Cardinality(A) + Cardinality(B) - Cardinality(A \cap B)
      BY <2>4, FS_Union
    <3>2. Cardinality(A \cap B) = 0
      BY <2>3, FS_EmptySet
    <3>3. Cardinality(A) \in Nat /\ Cardinality(B) \in Nat
      BY <2>4, FS_CardinalityType
    <3> QED
      BY <3>1, <3>2, <3>3
  <2>6. Cardinality(Users \ (A \cup B)) = Cardinality(Users) - Cardinality(A \cup B)
    <3>1. A \cup B \subseteq Users
      BY <2>2, <2>3
    <3>2. IsFiniteSet(A \cup B)
      BY <3>1, <2>4, FS_Subset
    <3>3. Cardinality(Users \ (A \cup B)) = Cardinality(Users) - Cardinality(Users \cap (A \cup B))
      BY <2>4, <3>2, FS_Difference
    <3>4. Users \cap (A \cup B) = A \cup B
      BY <3>1
    <3> QED
      BY <3>3, <3>4
  <2>7. Cardinality(rows[m] \cap counted) <= Cardinality(rows[m])
    BY <2>1, RowsFinite, FS_Subset
  <2>8. unread[m] = Cardinality(Users) - Cardinality(A) - Cardinality(rows[m] \cap counted)
    BY DEF CountInv
  <2>9. /\ Cardinality(Users) \in Nat /\ Cardinality(A) \in Nat
        /\ Cardinality(rows[m] \cap counted) \in Nat /\ Cardinality(rows[m]) \in Nat
    <3>1. IsFiniteSet(rows[m] \cap counted)
      BY <2>1, RowsFinite, FS_Subset
    <3> QED
      BY <3>1, <2>1, <2>4, RowsFinite, FS_CardinalityType
  <2>10. Cardinality(Users \ (A \cup B)) = Cardinality(Users) - Cardinality(A) - Cardinality(rows[m])
    BY <2>2, <2>5, <2>6, <2>9
  <2> QED
    BY <2>7, <2>8, <2>9, <2>10
<1> QED
  BY <1>1, Invariance, PTL

\* Whatever fails elsewhere, a join whose handler got through has left unread only what
\* came later or was stored later.
THEOREM BadgesFollowJoins == Spec => []BadgeFollowsJoins
<1>1. IInv => BadgeFollowsJoins
  <2> SUFFICES ASSUME IInv, NEW j \in Joins, pc[j] \in {"publish", "done"}, NEW m \in UnreadOf(joiner[j])
               PROVE m \in {l \in Msgs : l > JoinAt[j]} \cup overtaken[j]
    BY DEF BadgeFollowsJoins
  <2>1. m \in Stored /\ m \in Msgs /\ \A i \in rows[m] : joiner[i] # joiner[j]
    BY DEF UnreadOf, Stored
  <2>2. todo[j] = {}
    BY DEF IInv, HandlerInv
  <2> QED
    BY <2>1, <2>2 DEF IInv, BadgeInv
<1> QED
  BY <1>1, Invariance, PTL

\* At rest and without faults the clients know every count.
THEOREM ClientsDoSeeCounts == Spec => []ClientsSeeCounts
<1>1. IInv => ClientsSeeCounts
  BY DEF IInv, ShownInv, Quiet, ClientsSeeCounts
<1> QED
  BY <1>1, Invariance, PTL

-----------------------------------------------------------------------------
\* The receipts of ReadReceipts.

\* A handler records readers of messages from before its join alone.
BeforeInv == \A j \in Joins : \A m \in todo[j] : m <= JoinAt[j]

\* Each step keeps BeforeInv: a join has its time before its handler has messages.
LEMMA BeforeNext == TypeOK /\ HandlerInv /\ BeforeInv /\ [Next]_vars => BeforeInv'
<1> SUFFICES ASSUME TypeOK, HandlerInv, BeforeInv, [Next]_vars PROVE BeforeInv'
  OBVIOUS
<1> USE DEF BeforeInv, vars, eventVars
<1>1. CASE UNCHANGED <<todo, JoinAt>>
  BY <1>1
<1>2. ASSUME NEW u \in Users,
             \/ BroadcastRead(u) \/ BroadcastPublish(u) \/ JoinRoom(u)
             \/ LeaveGameRoom(u) \/ PublishFails(u)
      PROVE  BeforeInv'
  BY <1>1, <1>2 DEF BroadcastRead, BroadcastPublish, JoinRoom, LeaveGameRoom, PublishFails
<1>3. ASSUME NEW u \in Users, PublishRoomJoin(u) PROVE BeforeInv'
  <2>1. PICK i \in Joins : i = asked + 1 /\ JoinAt' = [JoinAt EXCEPT ![i] = made]
    BY <1>3 DEF PublishRoomJoin
  <2>2. todo[i] = {}
    <3>1. i > asked
      BY <2>1 DEF TypeOK
    <3>2. pc[i] = "none"
      BY <3>1 DEF HandlerInv
    <3> QED
      BY <3>2 DEF HandlerInv
  <2>3. todo' = todo
    BY <1>3 DEF PublishRoomJoin
  <2>4. \A j \in Joins \ {i} : JoinAt'[j] = JoinAt[j]
    BY <2>1 DEF TypeOK
  <2> QED
    BY <2>2, <2>3, <2>4
<1>4. ASSUME NEW k \in Joins, HandleRoomJoin(k) PROVE BeforeInv'
  <2>1. /\ todo' = [todo EXCEPT ![k] = GetUnreadMessagesBefore(joiner[k], JoinAt[k])]
        /\ UNCHANGED JoinAt
    BY <1>4 DEF HandleRoomJoin
  <2>2. \A m \in GetUnreadMessagesBefore(joiner[k], JoinAt[k]) : m <= JoinAt[k]
    BY DEF GetUnreadMessagesBefore
  <2> QED
    BY <2>1, <2>2 DEF TypeOK
<1>5. CASE (\A j \in Joins : todo'[j] \subseteq todo[j]) /\ UNCHANGED JoinAt
  BY <1>5
<1>6. ASSUME NEW k \in Joins, InsertChatReader(k) \/ JoinFails(k) PROVE BeforeInv'
  <2>1. \A j \in Joins : todo'[j] \subseteq todo[j]
    BY <1>6 DEF InsertChatReader, JoinFails, TypeOK
  <2> QED
    BY <1>5, <1>6, <2>1 DEF InsertChatReader, JoinFails
<1>7. CASE Crash
  BY <1>5, <1>7 DEF Crash
<1>8. ASSUME NEW m \in Msgs, HandleChatEvent(m) \/ InsertChatMessageFails(m) PROVE BeforeInv'
  BY <1>1, <1>8 DEF HandleChatEvent, InsertChatMessageFails
<1>9. ASSUME NEW k \in Joins,
             UpdateUnreadCounts(k) \/ PublishChatLatest(k) \/ CountFails(k) \/ LatestFails(k)
      PROVE  BeforeInv'
  BY <1>1, <1>9 DEF UpdateUnreadCounts, PublishChatLatest, CountFails, LatestFails
<1>10. CASE UNCHANGED vars
  BY <1>1, <1>10
<1> QED
  BY <1>2, <1>3, <1>4, <1>6, <1>7, <1>8, <1>9, <1>10 DEF Next

\* A row that a handler inserts is a receipt of its join.
LEMMA RowIsReceipt ==
  ASSUME TypeOK, HandlerInv, BeforeInv,
         NEW k \in Joins, NEW m \in todo[k],
         rows' = [rows EXCEPT ![m] = @ \cup {k}],
         UNCHANGED <<msgVars, eventVars, unread, counted>>
  PROVE  [Receipts!Next]_(Receipts!vars)
<1>1. m \in Msgs /\ chat[m] = "stored" /\ m <= JoinAt[k]
  BY DEF HandlerInv, BeforeInv, Stored
<1>2. pc[k] = "insert"
  BY DEF HandlerInv
<1>3. k <= asked
  <2>1. ~(k > asked)
    BY <1>2 DEF HandlerInv
  <2>2. k \in Int /\ asked \in Int
    BY DEF Joins, TypeOK
  <2> QED
    BY <2>1, <2>2
<1>4. k \notin counted /\ k \notin rows[m]
  BY <1>1, <1>2 DEF HandlerInv
<1>5. Receipts!Receive(k, m)
  BY <1>1, <1>3, <1>4 DEF Receipts!Receive, msgVars, eventVars
<1> QED
  BY <1>1, <1>5 DEF Receipts!Next

\* Every step of connections, handlers or faults is one of the receipts, or none.
LEMMA ReceiptStep ==
  TypeOK /\ HandlerInv /\ BeforeInv /\ [Next]_vars => [Receipts!Next]_(Receipts!vars)
<1> SUFFICES ASSUME TypeOK, HandlerInv, BeforeInv, [Next]_vars
             PROVE  [Receipts!Next]_(Receipts!vars)
  OBVIOUS
<1> USE DEF vars, msgVars, eventVars, historyVars
<1>1. CASE UNCHANGED <<msgVars, eventVars, unread, rows, counted>>
  BY <1>1 DEF Receipts!vars
<1>2. ASSUME NEW u \in Users,
             BroadcastRead(u) \/ JoinRoom(u) \/ LeaveGameRoom(u) \/ PublishFails(u)
      PROVE  [Receipts!Next]_(Receipts!vars)
  BY <1>1, <1>2 DEF BroadcastRead, JoinRoom, LeaveGameRoom, PublishFails
<1>3. ASSUME NEW u \in Users, BroadcastPublish(u) PROVE [Receipts!Next]_(Receipts!vars)
  <2>1. PICK m \in Msgs : /\ m = made + 1 /\ made' = m
                          /\ chat' = [chat EXCEPT ![m] = "flying"]
                          /\ ReaderIds' = [ReaderIds EXCEPT ![m] = seen[u]]
    BY <1>3 DEF BroadcastPublish
  <2>2. seen[u] \in SUBSET Users
    BY DEF TypeOK
  <2>3. Receipts!Send(m)
    BY <1>3, <2>1, <2>2 DEF BroadcastPublish, Receipts!Send
  <2> QED
    BY <2>3 DEF Receipts!Next
<1>4. ASSUME NEW u \in Users, PublishRoomJoin(u) PROVE [Receipts!Next]_(Receipts!vars)
  <2>1. PICK j \in Joins : /\ j = asked + 1 /\ asked' = j
                           /\ joiner' = [joiner EXCEPT ![j] = u]
                           /\ JoinAt' = [JoinAt EXCEPT ![j] = made]
    BY <1>4 DEF PublishRoomJoin
  <2>2. Receipts!Visit(j, u)
    BY <1>4, <2>1 DEF PublishRoomJoin, Receipts!Visit
  <2> QED
    BY <2>2 DEF Receipts!Next
<1>5. ASSUME NEW m \in Msgs, HandleChatEvent(m) PROVE [Receipts!Next]_(Receipts!vars)
  <2>1. ReaderIds[m] \in SUBSET Users
    BY DEF TypeOK
  <2>2. Receipts!Arrive(m)
    BY <1>5, <2>1 DEF HandleChatEvent, Receipts!Arrive
  <2> QED
    BY <2>2 DEF Receipts!Next
<1>6. ASSUME NEW m \in Msgs, InsertChatMessageFails(m) PROVE [Receipts!Next]_(Receipts!vars)
  <2>1. Receipts!Lose(m)
    BY <1>6 DEF InsertChatMessageFails, Receipts!Lose
  <2> QED
    BY <2>1 DEF Receipts!Next
<1>7. ASSUME NEW k \in Joins, InsertChatReader(k) PROVE [Receipts!Next]_(Receipts!vars)
  BY <1>7, RowIsReceipt DEF InsertChatReader
<1>8. ASSUME NEW k \in Joins, JoinFails(k) PROVE [Receipts!Next]_(Receipts!vars)
  <2>1. CASE UNCHANGED rows
    BY <1>1, <1>8, <2>1 DEF JoinFails
  <2>2. CASE \E m \in todo[k] : rows' = [rows EXCEPT ![m] = @ \cup {k}]
    BY <1>8, <2>2, RowIsReceipt DEF JoinFails
  <2> QED
    BY <1>8, <2>1, <2>2 DEF JoinFails
<1>9. ASSUME NEW k \in Joins, UpdateUnreadCounts(k) PROVE [Receipts!Next]_(Receipts!vars)
  <2>1. pc[k] = "insert" /\ k \notin counted
    BY <1>9 DEF UpdateUnreadCounts, Goto, HandlerInv
  <2>2. k <= asked
    <3>1. ~(k > asked)
      BY <2>1 DEF HandlerInv
    <3>2. k \in Int /\ asked \in Int
      BY DEF Joins, TypeOK
    <3> QED
      BY <3>1, <3>2
  <2>3. Receipts!Tally(k)
    BY <1>9, <2>1, <2>2 DEF UpdateUnreadCounts, Receipts!Tally
  <2> QED
    BY <2>3 DEF Receipts!Next
<1>10. ASSUME NEW k \in Joins,
              HandleRoomJoin(k) \/ PublishChatLatest(k) \/ CountFails(k) \/ LatestFails(k)
       PROVE  [Receipts!Next]_(Receipts!vars)
  BY <1>1, <1>10 DEF HandleRoomJoin, PublishChatLatest, CountFails, LatestFails
<1>11. CASE Crash \/ UNCHANGED vars
  BY <1>1, <1>11 DEF Crash
<1> QED
  BY <1>2, <1>3, <1>4, <1>5, <1>6, <1>7, <1>8, <1>9, <1>10, <1>11 DEF Next

\* For any number of members, messages and joins, and whatever fails, the handlers' rows
\* and counts are the receipts of ReadReceipts.
THEOREM ReadersAreReceipts == Spec => ImplementsReadReceipts
<1>1. Init => Receipts!Init
  BY DEF Init, Receipts!Init
<1>2. Init => BeforeInv
  BY DEF Init, BeforeInv
<1>3. IInv /\ BeforeInv /\ [Next]_vars => BeforeInv'
  BY BeforeNext DEF IInv
<1>4. IInv /\ BeforeInv /\ [Next]_vars => [Receipts!Next]_(Receipts!vars)
  BY ReceiptStep DEF IInv
<1> QED
  BY <1>1, <1>2, <1>3, <1>4, Invariance, PTL DEF Spec, ImplementsReadReceipts, Receipts!Spec
=============================================================================
