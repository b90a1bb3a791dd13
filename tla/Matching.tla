------------------------------ MODULE Matching ------------------------------
(***************************************************************************)
(* The match service for one couple count: WebSocket connections that put  *)
(* their users into Redis' waiting queues, the monitor that reads the      *)
(* queues and then removes whom it has matched, and the room.create        *)
(* consumer that tells the matched users.                                  *)
(*                                                                         *)
(* Queues of different couple counts share no key, so one count is the     *)
(* whole story.  A user's JSON member is the same for all his connections. *)
(***************************************************************************)
EXTENDS Naturals, FiniteSets, FiniteSetsExt

CONSTANTS
  Users,        \* users of this couple count
  Males,        \* the men among them
  Age,          \* their ages, the scores of the queues
  CoupleCount,  \* couples in a match
  Conns,        \* the connections that users open
  Owner,        \* whose connection it is
  NoConn,       \* no entry in MatchClients
  MaxFaults     \* bound: failed remote calls, lost events and crashes

ASSUME ConstantsAssumption ==
  /\ IsFiniteSet(Users) /\ IsFiniteSet(Conns)
  /\ Males \subseteq Users
  /\ Age \in [Users -> Nat]
  /\ CoupleCount \in Nat \ {0}
  /\ Owner \in [Conns -> Users]
  /\ NoConn \notin Conns
  /\ MaxFaults \in Nat

VARIABLES
  client,    \* MatchClients, the connection stored for each user
  queue,     \* the members of the two sorted sets matching_queue
  pc,        \* position of each connection's HandleMatchSocket
  mon,       \* position of startMatchMonitoring
  men,       \* what MonitorAndMatchUsers has read: men ...
  women,     \* ... and women
  toRemove,  \* those of them it has not removed from the queue yet
  matchQ,    \* MatchEvents on their way to the chat service
  roomQ,     \* room.create events: whom of each match to tell yet
  regs,      \* history: times each user was queued
  matches,   \* history: matches published for each user
  created,   \* history: MatchEvents published
  succeeded, \* history: connections that were told success
  faults     \* history: faults so far

connVars == <<client, queue, pc>>
monVars  == <<mon, men, women, toRemove>>
mqVars   == <<matchQ, roomQ>>
histVars == <<regs, matches, created, succeeded>>

vars == <<connVars, monVars, mqVars, histVars, faults>>

-----------------------------------------------------------------------------
ConnsOf(u) == {c \in Conns : Owner[c] = u}

ConnPcs == {"new", "store", "enqueue", "waiting", "left", "failed", "dequeue", "closed"}

MonPcs == {"idle", "females", "remove", "publish"}

Events == [id : Nat, users : SUBSET Users]

\* The lowest scores of a queue; members of equal score may come in any order.
Youngest(S) ==
  {T \in kSubset(CoupleCount, S) : \A t \in T, s \in S \ T : Age[t] <= Age[s]}

\* A woman's age differs from the men's average by at most r years.
Fits(w, M, r) ==
  LET total == MapThenSumSet(LAMBDA m : Age[m], M)
  IN  /\ CoupleCount * Age[w] <= total + CoupleCount * r
      /\ total <= CoupleCount * (Age[w] + r)

WithinRange(M, r) == {w \in queue \ Males : Fits(w, M, r)}

\* findFemalesWithExpandingAgeRange.
AgeRanges == {5, 10, 15}

FemalesFor(M) ==
  LET enough == {r \in AgeRanges : Cardinality(WithinRange(M, r)) >= CoupleCount}
  IN  IF enough = {} THEN {} ELSE Youngest(WithinRange(M, Min(enough)))

TypeOK ==
  /\ client \in [Users -> Conns \cup {NoConn}]
  /\ queue \subseteq Users
  /\ pc \in [Conns -> ConnPcs]
  /\ mon \in MonPcs
  /\ men \subseteq Users
  /\ women \subseteq Users
  /\ toRemove \subseteq Users
  /\ matchQ \subseteq Events
  /\ roomQ \subseteq Events
  /\ regs \in [Users -> Nat]
  /\ matches \in [Users -> Nat]
  /\ created \in Nat
  /\ succeeded \subseteq Conns
  /\ faults \in Nat

Init ==
  /\ client = [u \in Users |-> NoConn]
  /\ queue = {}
  /\ pc = [c \in Conns |-> "new"]
  /\ mon = "idle"
  /\ men = {}
  /\ women = {}
  /\ toRemove = {}
  /\ matchQ = {}
  /\ roomQ = {}
  /\ regs = [u \in Users |-> 0]
  /\ matches = [u \in Users |-> 0]
  /\ created = 0
  /\ succeeded = {}
  /\ faults = 0

-----------------------------------------------------------------------------
\* A connection.

Goto(c, from, to) ==
  /\ pc[c] = from
  /\ pc' = [pc EXCEPT ![c] = to]

\* The upgrade and the two lookups in the user service, which share nothing, and
\* RegisterUserToMatch: MatchClients.Load ...
CheckClient(c) ==
  /\ Goto(c, "new", IF client[Owner[c]] = NoConn THEN "store" ELSE "closed")
  /\ UNCHANGED <<client, queue, monVars, mqVars, histVars, faults>>

\* ... MatchClients.Store ...
StoreClient(c) ==
  /\ Goto(c, "store", "enqueue")
  /\ client' = [client EXCEPT ![Owner[c]] = c]
  /\ UNCHANGED <<queue, monVars, mqVars, histVars, faults>>

\* ... and AddUserToMatchQueue, a ZADD.
Enqueue(c) ==
  /\ Goto(c, "enqueue", "waiting")
  /\ queue' = queue \cup {Owner[c]}
  /\ regs' = [regs EXCEPT ![Owner[c]] = @ + 1]
  /\ UNCHANGED <<client, monVars, mqVars, matches, created, succeeded, faults>>

\* The client closes the connection.
ClientCloses(c) ==
  /\ Goto(c, "waiting", "left")
  /\ UNCHANGED <<client, queue, monVars, mqVars, histVars, faults>>

\* Mutant: after the failure message the handler returns without its defers.
TimeOutUncleaned(c) ==
  /\ Goto(c, "waiting", "closed")
  /\ UNCHANGED <<client, queue, monVars, mqVars, histVars, faults>>

\* Thirty seconds after the upgrade: SendMatchFailureMessage, and the handler ends.
TimeOut(c) ==
  /\ Goto(c, "waiting", "failed")
  /\ UNCHANGED <<client, queue, monVars, mqVars, histVars, faults>>

\* Mutant: a user who is not in MatchClients is taken to be out of the queue.
ForgetIfListed(c) ==
  /\ pc[c] \in {"left", "failed"}
  /\ pc' = [pc EXCEPT ![c] = IF client[Owner[c]] = NoConn THEN "closed" ELSE "dequeue"]
  /\ client' = [client EXCEPT ![Owner[c]] = NoConn]
  /\ UNCHANGED <<queue, monVars, mqVars, histVars, faults>>

\* The deferred UnregisterUserFromMatch: MatchClients.Delete ...
ForgetClient(c) ==
  /\ pc[c] \in {"left", "failed"}
  /\ pc' = [pc EXCEPT ![c] = "dequeue"]
  /\ client' = [client EXCEPT ![Owner[c]] = NoConn]
  /\ UNCHANGED <<queue, monVars, mqVars, histVars, faults>>

\* ... and RemoveUserFromQueue.
Dequeue(c) ==
  /\ Goto(c, "dequeue", "closed")
  /\ queue' = queue \ {Owner[c]}
  /\ UNCHANGED <<client, monVars, mqVars, histVars, faults>>

-----------------------------------------------------------------------------
\* The monitor: MonitorAndMatchUsers, then notifyMatchSuccess.

ReadMales ==
  /\ mon = "idle"
  /\ men' \in Youngest(queue \cap Males)
  /\ mon' = "females"
  /\ UNCHANGED <<connVars, women, toRemove, mqVars, histVars, faults>>

ReadFemales ==
  /\ mon = "females"
  /\ \/ /\ FemalesFor(men) = {}
        /\ mon' = "idle"
        /\ men' = {}
        /\ UNCHANGED <<women, toRemove>>
     \/ /\ women' \in FemalesFor(men)
        /\ toRemove' = men \cup women'
        /\ mon' = "remove"
        /\ UNCHANGED men
  /\ UNCHANGED <<connVars, mqVars, histVars, faults>>

\* What is left to do after u's ZREM; the men are removed first.
Removed(u) ==
  /\ mon = "remove"
  /\ u \in toRemove
  /\ u \in Males \/ toRemove \cap Males = {}
  /\ toRemove' = toRemove \ {u}
  /\ mon' = IF toRemove' = {} THEN "publish" ELSE "remove"
  /\ UNCHANGED <<men, women>>

\* Mutant: only the men are removed from their queue.
RemoveMatchedMen(u) ==
  /\ Removed(u)
  /\ queue' = queue \ ({u} \cap Males)
  /\ UNCHANGED <<client, pc, mqVars, histVars, faults>>

\* removeMatchedUsersFromQueue, one ZREM.
RemoveMatched(u) ==
  /\ Removed(u)
  /\ queue' = queue \ {u}
  /\ UNCHANGED <<client, pc, mqVars, histVars, faults>>

PublishMatch ==
  /\ mon = "publish"
  /\ matchQ' = matchQ \cup {[id |-> created, users |-> men \cup women]}
  /\ matches' = [u \in Users |-> IF u \in men \cup women THEN matches[u] + 1 ELSE matches[u]]
  /\ created' = created + 1
  /\ mon' = "idle"
  /\ men' = {}
  /\ women' = {}
  /\ UNCHANGED <<connVars, toRemove, roomQ, regs, succeeded, faults>>

-----------------------------------------------------------------------------
\* The way back.

\* The chat service creates the match's room and announces it.
CreateRoom(e) ==
  /\ matchQ' = matchQ \ {e}
  /\ roomQ' = roomQ \cup {e}
  /\ UNCHANGED <<connVars, monVars, histVars, faults>>

\* SendMatchSuccessMessage goes on with the others.
Told(e, u) ==
  LET left == e.users \ {u}
  IN  roomQ' = (roomQ \ {e}) \cup IF left = {} THEN {} ELSE {[id |-> e.id, users |-> left]}

\* A matched user is told on the connection that MatchClients has for him now.
NotifySuccess(e, u) ==
  /\ u \in e.users
  /\ client[u] # NoConn
  /\ Told(e, u)
  /\ succeeded' = succeeded \cup {client[u]}
  /\ client' = [client EXCEPT ![u] = NoConn]
  /\ UNCHANGED <<queue, pc, monVars, matchQ, regs, matches, created, faults>>

\* Nobody to tell, or the peer has closed the connection and the write fails.
NotifyNobody(e, u) ==
  /\ u \in e.users
  /\ client[u] # NoConn => pc[client[u]] \notin {"enqueue", "waiting"}
  /\ Told(e, u)
  /\ UNCHANGED <<connVars, monVars, matchQ, histVars, faults>>

-----------------------------------------------------------------------------
\* Faults.

Fault == faults < MaxFaults /\ faults' = faults + 1

\* ZADD fails: the handler returns before it has deferred the clean-up.
EnqueueFails(c) ==
  /\ Fault
  /\ Goto(c, "enqueue", "closed")
  /\ UNCHANGED <<client, queue, monVars, mqVars, histVars>>

\* ZREM fails: logged, and that is all.
DequeueFails(c) ==
  /\ Fault
  /\ Goto(c, "dequeue", "closed")
  /\ UNCHANGED <<client, queue, monVars, mqVars, histVars>>

RemoveFails(u) ==
  /\ Fault
  /\ Removed(u)
  /\ UNCHANGED <<connVars, mqVars, histVars>>

\* The women cannot be read, or the event cannot be published.
MonitorCallFails ==
  /\ Fault
  /\ mon \in {"females", "publish"}
  /\ mon' = "idle"
  /\ men' = {}
  /\ women' = {}
  /\ UNCHANGED <<connVars, toRemove, mqVars, histVars>>

\* The chat service fails or dies before it has announced the room.
MatchLost(e) ==
  /\ Fault
  /\ matchQ' = matchQ \ {e}
  /\ UNCHANGED <<connVars, monVars, roomQ, histVars>>

\* The match process dies: sockets and MatchClients are gone, the queue stays.
MatchCrash ==
  /\ Fault
  /\ client' = [u \in Users |-> NoConn]
  /\ pc' = [c \in Conns |-> IF pc[c] = "new" THEN "new" ELSE "closed"]
  /\ mon' = "idle"
  /\ men' = {}
  /\ women' = {}
  /\ toRemove' = {}
  /\ roomQ' \in SUBSET roomQ
  /\ UNCHANGED <<queue, matchQ, histVars>>

-----------------------------------------------------------------------------
Connection(c) ==
  \/ CheckClient(c)
  \/ StoreClient(c)
  \/ Enqueue(c)
  \/ ClientCloses(c)
  \/ TimeOut(c)
  \/ ForgetClient(c)
  \/ Dequeue(c)

Monitor ==
  \/ ReadMales
  \/ ReadFemales
  \/ \E u \in Users : RemoveMatched(u)
  \/ PublishMatch

Rooms ==
  \/ \E e \in matchQ : CreateRoom(e)
  \/ \E e \in roomQ, u \in Users : NotifySuccess(e, u) \/ NotifyNobody(e, u)

Faults ==
  \/ \E c \in Conns : EnqueueFails(c) \/ DequeueFails(c)
  \/ \E u \in Users : RemoveFails(u)
  \/ MonitorCallFails
  \/ \E e \in matchQ : MatchLost(e)
  \/ MatchCrash

Next ==
  \/ \E c \in Conns : Connection(c)
  \/ Monitor
  \/ Rooms
  \/ Faults

Spec == Init /\ [][Next]_vars

-----------------------------------------------------------------------------
\* Safety.

\* As many men as women, and the women all of an age that one of the ranges admits.
FairParties ==
  {p \in SUBSET Users :
     /\ Cardinality(p \cap Males) = CoupleCount
     /\ Cardinality(p \ Males) = CoupleCount
     /\ \E r \in AgeRanges : \A w \in p \ Males : Fits(w, p \cap Males, r)}

Matches == INSTANCE Matchmaking WITH
  Parties <- FairParties,
  registered <- regs,
  matched <- matches,
  slack <- faults,
  issued <- created,
  news <- matchQ \cup roomQ

\* Users queue, leave and come back while the monitor reads and removes in separate
\* calls, and a match is announced over two services; still all of it is the matching
\* of Matchmaking: fair parties, paid for by each member, told once to each of them.
ImplementsMatchmaking == Matches!Spec

\* However the monitor's reads and removals interleave with users that leave and
\* come back, each time a user queues buys at most one match; one more per fault.
MatchesBounded == \A u \in Users : matches[u] <= regs[u] + faults

\* A match tells each of its users at most once, on one connection.
SuccessesBounded ==
  \A u \in Users : Cardinality({c \in succeeded : Owner[c] = u}) <= matches[u]

\* Without a fault, nobody waits in the queue without a connection that will take
\* him out of it, whatever order his connections come and go in.
QueueHasOwner ==
  faults = 0 =>
    \A u \in queue : \E c \in ConnsOf(u) : pc[c] \in {"waiting", "left", "failed", "dequeue"}

\* Without a fault, MatchClients never keeps a finished connection, which would
\* lock its user out of matching for good.
ClientIsOpen ==
  faults = 0 =>
    \A u \in Users : client[u] # NoConn =>
      client[u] \in ConnsOf(u) /\ pc[client[u]] \in {"enqueue", "waiting", "left", "failed"}

=============================================================================
