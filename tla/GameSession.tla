---------------------------- MODULE GameSession ----------------------------
(***************************************************************************)
(* The WebSocket sessions of the game service: the clients map and Redis'  *)
(* client:active, the handler of each socket with its reader, writer and   *)
(* pinger, and the goroutines that broadcast into the clients' Send        *)
(* channels.  Broadcasts come from the consumer's goroutines and from the  *)
(* readers themselves, which run their messages' handlers in line.         *)
(*                                                                         *)
(* Nobody recovers a panic of a goroutine (a send on a closed channel), so *)
(* it takes the process down.  The handler itself runs under net/http,     *)
(* which recovers its panic (a second close): only that handler ends.      *)
(***************************************************************************)
EXTENDS Naturals, FiniteSets

CONSTANTS
  Users,         \* the members of a room
  Conns,         \* the sockets that they open
  Owner,         \* whose socket it is
  NoConn,        \* no client
  Consumers,     \* goroutines of the MQ consumer that broadcast
  ChanSize,      \* capacity of a Send channel, 256 in the code
  MaxBroadcasts, \* bound: broadcasts
  MaxFaults      \* bound: failed Redis calls and crashes

ASSUME ConstantsAssumption ==
  /\ IsFiniteSet(Conns)
  /\ Owner \in [Conns -> Users]
  /\ NoConn \notin Conns
  /\ Conns \cap Consumers = {}
  /\ ChanSize \in Nat \ {0}
  /\ MaxBroadcasts \in Nat
  /\ MaxFaults \in Nat

VARIABLES
  client,     \* GameService.clients
  active,     \* Redis hash client:active
  pc,         \* position of each HandleGameSocket
  loaded,     \* the client that UnRegisterUserFromGame has loaded
  peer,       \* the other end: it answers, it is suspended, the socket is dead
  cancelled,  \* sockets whose context is cancelled
  reader,     \* sockets whose listenForMessages runs ...
  writer,     \* ... whose writeMessages runs ...
  pinger,     \* ... whose pingPongHandler runs
  buf,        \* messages in each Send channel
  shut,       \* closed Send channels
  todo,       \* whom each broadcaster still has to send to
  target,     \* the client each broadcaster is sending to
  broadcasts, \* history: broadcasts so far
  ends,       \* history: channels closed by UnRegisterUserFromGame
  deaths,     \* history: panics of the process
  faults      \* history: faults so far

mapVars  == <<client, active>>
sockVars == <<pc, loaded, peer, cancelled>>
goVars   == <<reader, writer, pinger>>
chanVars == <<buf, shut>>
sendVars == <<todo, target>>
histVars == <<broadcasts, ends, deaths>>

vars == <<mapVars, sockVars, goVars, chanVars, sendVars, histVars, faults>>

-----------------------------------------------------------------------------
Broadcasters == Conns \cup Consumers

ConnsOf(u) == {c \in Conns : Owner[c] = u}

Pcs == {"new", "activate", "open", "close", "delete", "deactivate", "closed"}

Idle(s) == todo[s] = {} /\ target[s] = NoConn

TypeOK ==
  /\ client \in [Users -> Conns \cup {NoConn}]
  /\ active \subseteq Users
  /\ pc \in [Conns -> Pcs]
  /\ loaded \in [Conns -> Conns \cup {NoConn}]
  /\ peer \in [Conns -> {"up", "suspended", "dead"}]
  /\ cancelled \subseteq Conns
  /\ reader \subseteq Conns
  /\ writer \subseteq Conns
  /\ pinger \subseteq Conns
  /\ buf \in [Conns -> 0..ChanSize]
  /\ shut \subseteq Conns
  /\ todo \in [Broadcasters -> SUBSET Users]
  /\ target \in [Broadcasters -> Conns \cup {NoConn}]
  /\ broadcasts \in Nat
  /\ ends \in Nat
  /\ deaths \in Nat
  /\ faults \in Nat

Init ==
  /\ client = [u \in Users |-> NoConn]
  /\ active = {}
  /\ pc = [c \in Conns |-> "new"]
  /\ loaded = [c \in Conns |-> NoConn]
  /\ peer = [c \in Conns |-> "up"]
  /\ cancelled = {}
  /\ reader = {}
  /\ writer = {}
  /\ pinger = {}
  /\ buf = [c \in Conns |-> 0]
  /\ shut = {}
  /\ todo = [s \in Broadcasters |-> {}]
  /\ target = [s \in Broadcasters |-> NoConn]
  /\ broadcasts = 0
  /\ ends = 0
  /\ deaths = 0
  /\ faults = 0

-----------------------------------------------------------------------------
\* The process dies with its map, sockets, channels and goroutines; what Redis
\* has stays.
ProcessDies ==
  /\ client' = [u \in Users |-> NoConn]
  /\ pc' = [c \in Conns |-> IF pc[c] = "new" THEN "new" ELSE "closed"]
  /\ loaded' = [c \in Conns |-> NoConn]
  /\ peer' = [c \in Conns |-> IF pc[c] = "new" THEN peer[c] ELSE "dead"]
  /\ cancelled' = {}
  /\ reader' = {}
  /\ writer' = {}
  /\ pinger' = {}
  /\ buf' = [c \in Conns |-> 0]
  /\ shut' = {}
  /\ todo' = [s \in Broadcasters |-> {}]
  /\ target' = [s \in Broadcasters |-> NoConn]
  /\ UNCHANGED <<active, broadcasts, ends>>

-----------------------------------------------------------------------------
\* HandleGameSocket.

Goto(c, from, to) ==
  /\ pc[c] = from
  /\ pc' = [pc EXCEPT ![c] = to]

\* The deferred conn.Close; the cancel after it has no goroutine left to stop.
Close(c) == peer' = [peer EXCEPT ![c] = "dead"]

\* RegisterUserToGame: clients.Store, over whatever the user had there ...
StoreClient(c) ==
  /\ Goto(c, "new", "activate")
  /\ client' = [client EXCEPT ![Owner[c]] = c]
  /\ UNCHANGED <<active, loaded, peer, cancelled, goVars, chanVars, sendVars, histVars,
                 faults>>

\* ... and HSET client:active, after which the three goroutines start.
Activate(c) ==
  /\ Goto(c, "activate", "open")
  /\ active' = active \cup {Owner[c]}
  /\ reader' = reader \cup {c}
  /\ writer' = writer \cup {c}
  /\ pinger' = pinger \cup {c}
  /\ UNCHANGED <<client, loaded, peer, cancelled, chanVars, sendVars, histVars, faults>>

\* wg.Wait returns, and the deferred UnRegisterUserFromGame runs: clients.Load ...
LoadClient(c) ==
  /\ pc[c] = "open"
  /\ c \notin reader \cup writer \cup pinger
  /\ LET d == client[Owner[c]]
     IN  /\ loaded' = [loaded EXCEPT ![c] = d]
         /\ pc' = [pc EXCEPT ![c] = IF d = NoConn THEN "deactivate" ELSE "close"]
  /\ UNCHANGED <<mapVars, peer, cancelled, goVars, chanVars, sendVars, histVars, faults>>

\* ... close(client.Send) ...
CloseSend(c) ==
  /\ Goto(c, "close", "delete")
  /\ loaded[c] \notin shut
  /\ shut' = shut \cup {loaded[c]}
  /\ ends' = ends + 1
  /\ UNCHANGED <<mapVars, loaded, peer, cancelled, goVars, buf, sendVars, broadcasts,
                 deaths, faults>>

\* ... which panics when the channel is closed already: the rest of the clean-up is
\* left out, the other deferred calls run ...
CloseAgain(c) ==
  /\ Goto(c, "close", "closed")
  /\ loaded[c] \in shut
  /\ loaded' = [loaded EXCEPT ![c] = NoConn]
  /\ Close(c)
  /\ UNCHANGED <<mapVars, cancelled, goVars, chanVars, sendVars, histVars, faults>>

\* Mutant: the closed client stays in the map.
DeleteNothing(c) ==
  /\ Goto(c, "delete", "deactivate")
  /\ loaded' = [loaded EXCEPT ![c] = NoConn]
  /\ UNCHANGED <<mapVars, peer, cancelled, goVars, chanVars, sendVars, histVars, faults>>

\* ... clients.Delete, by user ...
DeleteClient(c) ==
  /\ Goto(c, "delete", "deactivate")
  /\ client' = [client EXCEPT ![Owner[c]] = NoConn]
  /\ loaded' = [loaded EXCEPT ![c] = NoConn]
  /\ UNCHANGED <<active, peer, cancelled, goVars, chanVars, sendVars, histVars, faults>>

\* ... and HDEL client:active.
Deactivate(c) ==
  /\ Goto(c, "deactivate", "closed")
  /\ active' = active \ {Owner[c]}
  /\ Close(c)
  /\ UNCHANGED <<client, loaded, cancelled, goVars, chanVars, sendVars, histVars, faults>>

-----------------------------------------------------------------------------
\* The other end, and what the socket's goroutines notice of it.

PeerChanges(c) ==
  /\ pc[c] = "open"
  /\ peer[c] # "dead"
  /\ \E p \in {"up", "suspended", "dead"} \ {peer[c]} : peer' = [peer EXCEPT ![c] = p]
  /\ UNCHANGED <<mapVars, pc, loaded, cancelled, goVars, chanVars, sendVars, histVars,
                 faults>>

\* Mutant: the pinger takes the user off client:active.
PingFailsDeactivates(c) ==
  /\ c \in pinger
  /\ peer[c] # "up" \/ ~Idle(c)
  /\ pinger' = pinger \ {c}
  /\ cancelled' = cancelled \cup {c}
  /\ active' = active \ {Owner[c]}
  /\ UNCHANGED <<client, pc, loaded, peer, reader, writer, chanVars, sendVars, histVars,
                 faults>>

\* A ping cannot be written, or no pong is read in time: the other end does not
\* answer, or the reader is busy with an earlier message.
PingFails(c) ==
  /\ c \in pinger
  /\ peer[c] # "up" \/ ~Idle(c)
  /\ pinger' = pinger \ {c}
  /\ cancelled' = cancelled \cup {c}
  /\ UNCHANGED <<mapVars, pc, loaded, peer, reader, writer, chanVars, sendVars, histVars,
                 faults>>

PingerCancelled(c) ==
  /\ c \in pinger \cap cancelled
  /\ pinger' = pinger \ {c}
  /\ UNCHANGED <<mapVars, sockVars, reader, writer, chanVars, sendVars, histVars, faults>>

\* ReadMessage returns an error.
ReadFails(c) ==
  /\ c \in reader
  /\ Idle(c)
  /\ peer[c] = "dead"
  /\ reader' = reader \ {c}
  /\ cancelled' = cancelled \cup {c}
  /\ UNCHANGED <<mapVars, pc, loaded, peer, writer, pinger, chanVars, sendVars, histVars,
                 faults>>

\* ReadMessage has returned a message, and the loop comes back to ctx.Done: the
\* cancellation alone does not wake a blocked reader.
ReaderCancelled(c) ==
  /\ c \in reader \cap cancelled
  /\ Idle(c)
  /\ peer[c] = "up"
  /\ reader' = reader \ {c}
  /\ UNCHANGED <<mapVars, sockVars, writer, pinger, chanVars, sendVars, histVars, faults>>

\* writeMessages: a failed write ends the writer and cancels nothing.
WriteMessage(c) ==
  /\ c \in writer
  /\ buf[c] > 0
  /\ buf' = [buf EXCEPT ![c] = @ - 1]
  /\ writer' = IF peer[c] = "dead" THEN writer \ {c} ELSE writer
  /\ UNCHANGED <<mapVars, sockVars, reader, pinger, shut, sendVars, histVars, faults>>

\* Mutants: the writer closes the channel as it ends; it ends on a closed channel only.
WriterEndsAndCloses(c) ==
  /\ c \in writer
  /\ c \in cancelled \/ (c \in shut /\ buf[c] = 0)
  /\ writer' = writer \ {c}
  /\ shut' = shut \cup {c}
  /\ UNCHANGED <<mapVars, sockVars, reader, pinger, buf, sendVars, histVars, faults>>

WriterEndsWhenClosed(c) ==
  /\ c \in writer
  /\ c \in shut /\ buf[c] = 0
  /\ writer' = writer \ {c}
  /\ UNCHANGED <<mapVars, sockVars, reader, pinger, chanVars, sendVars, histVars, faults>>

\* The context is cancelled, or the channel is closed and drained.
WriterEnds(c) ==
  /\ c \in writer
  /\ c \in cancelled \/ (c \in shut /\ buf[c] = 0)
  /\ writer' = writer \ {c}
  /\ UNCHANGED <<mapVars, sockVars, reader, pinger, chanVars, sendVars, histVars, faults>>

-----------------------------------------------------------------------------
\* SendMessageToRoom.

\* GetActiveUserIDs, called by the handler of an event or of a user's message.
ListActive(s) ==
  /\ Idle(s)
  /\ s \in Conns => s \in reader /\ peer[s] = "up"
  /\ broadcasts < MaxBroadcasts
  /\ active # {}
  /\ todo' = [todo EXCEPT ![s] = active]
  /\ broadcasts' = broadcasts + 1
  /\ UNCHANGED <<mapVars, sockVars, goVars, chanVars, target, ends, deaths, faults>>

\* Mutant: the loop does not advance.
LoadTargetAgain(s, u) ==
  /\ target[s] = NoConn
  /\ u \in todo[s]
  /\ target' = [target EXCEPT ![s] = client[u]]
  /\ UNCHANGED <<mapVars, sockVars, goVars, chanVars, todo, histVars, faults>>

\* clients.Load.
LoadTarget(s, u) ==
  /\ target[s] = NoConn
  /\ u \in todo[s]
  /\ todo' = [todo EXCEPT ![s] = @ \ {u}]
  /\ target' = [target EXCEPT ![s] = client[u]]
  /\ UNCHANGED <<mapVars, sockVars, goVars, chanVars, histVars, faults>>

\* client.Send <- message: it waits while the channel is full ...
Send(s) ==
  /\ target[s] # NoConn
  /\ target[s] \notin shut
  /\ buf[target[s]] < ChanSize
  /\ buf' = [buf EXCEPT ![target[s]] = @ + 1]
  /\ target' = [target EXCEPT ![s] = NoConn]
  /\ UNCHANGED <<mapVars, sockVars, goVars, shut, todo, histVars, faults>>

\* ... and panics when the channel is closed, also while it waits.
SendOnClosed(s) ==
  /\ target[s] \in shut
  /\ ProcessDies
  /\ deaths' = deaths + 1
  /\ UNCHANGED faults

-----------------------------------------------------------------------------
\* Faults.

Fault == faults < MaxFaults /\ faults' = faults + 1

\* HSET fails: the handler returns before it has deferred the clean-up.
ActivateFails(c) ==
  /\ Fault
  /\ Goto(c, "activate", "closed")
  /\ Close(c)
  /\ UNCHANGED <<mapVars, loaded, cancelled, goVars, chanVars, sendVars, histVars>>

\* HDEL fails: logged, and that is all.
DeactivateFails(c) ==
  /\ Fault
  /\ Goto(c, "deactivate", "closed")
  /\ Close(c)
  /\ UNCHANGED <<mapVars, loaded, cancelled, goVars, chanVars, sendVars, histVars>>

Crash ==
  /\ Fault
  /\ ProcessDies
  /\ UNCHANGED deaths

-----------------------------------------------------------------------------
Handler(c) ==
  \/ Activate(c)
  \/ LoadClient(c)
  \/ CloseSend(c)
  \/ CloseAgain(c)
  \/ DeleteClient(c)
  \/ Deactivate(c)

Pinger(c) == PingFails(c) \/ PingerCancelled(c)

Writer(c) == WriteMessage(c) \/ WriterEnds(c)

Broadcast(s) == (\E u \in Users : LoadTarget(s, u)) \/ Send(s) \/ SendOnClosed(s)

Faults ==
  \/ \E c \in Conns : ActivateFails(c) \/ DeactivateFails(c)
  \/ Crash

Next ==
  \/ \E c \in Conns :
       \/ StoreClient(c)
       \/ Handler(c)
       \/ PeerChanges(c)
       \/ Pinger(c)
       \/ ReadFails(c)
       \/ ReaderCancelled(c)
       \/ Writer(c)
  \/ \E s \in Broadcasters : ListActive(s) \/ Broadcast(s)
  \/ Faults

Spec == Init /\ [][Next]_vars

\* Goroutines that can go on do.  A write to a suspended end may block, so the
\* writer of such a socket need not; and nothing is assumed of the users' ends, not
\* even that one with a cancelled context sends another message.
Fairness ==
  /\ \A c \in Conns : /\ WF_vars(Handler(c))
                      /\ WF_vars(Pinger(c))
                      /\ WF_vars(ReadFails(c))
                      /\ WF_vars(peer[c] # "suspended" /\ Writer(c))
  /\ \A s \in Broadcasters : WF_vars(Broadcast(s))

FairSpec == Spec /\ Fairness

-----------------------------------------------------------------------------
\* Safety.

\* Without a fault the clients map keeps a client whose handler has ended only until
\* the handler that closed its channel has deleted it: nobody goes on sending into a
\* channel that nobody reads.
NoDeadClient ==
  faults = 0 => \A u \in Users :
    client[u] # NoConn /\ pc[client[u]] = "closed" =>
      \E d \in ConnsOf(u) : pc[d] = "delete" /\ loaded[d] = client[u]

\* A closed channel can be found in the map only until the handler that closed it
\* has deleted it: the window in which it can be loaded is these two steps.
ShutOnlyWhileDeleting ==
  \A u \in Users : client[u] \in shut =>
    \E d \in ConnsOf(u) : pc[d] = "delete" /\ loaded[d] = client[u]

\* An open socket is missing from the map only when its user has opened another,
\* and from client:active only when that other one has ended.
OpenIsReachable ==
  \A c \in Conns : pc[c] = "open" =>
    LET others == ConnsOf(Owner[c]) \ {c}
    IN  /\ client[Owner[c]] = c \/ \E d \in others : pc[d] # "new"
        /\ Owner[c] \in active \/ \E d \in others : pc[d] = "closed"

\* The process panics at most once for each channel that an ending session closed.
DeathsBounded == deaths <= ends

-----------------------------------------------------------------------------
\* Refinement: sessions and broadcasts implement those of Broadcasting.

PhaseOf ==
  [p \in Pcs |->
     CASE p = "new" -> "new"
       [] p \in {"activate", "open"} -> "open"
       [] p = "close" -> "ending"
       [] p \in {"delete", "deactivate"} -> "leaving"
       [] p = "closed" -> "gone"]

Phase == [c \in Conns |-> PhaseOf[pc[c]]]

\* A user whose client was loaded is still to be sent to.
Pending ==
  [s \in Broadcasters |-> todo[s] \cup {Owner[c] : c \in {target[s]} \ {NoConn}}]

Messages == INSTANCE Broadcasting WITH
  Sockets <- Conns,
  Others <- Consumers,
  Capacity <- ChanSize,
  phase <- Phase,
  present <- active,
  mail <- buf,
  sealed <- shut,
  pending <- Pending,
  seals <- ends,
  slack <- faults

\* Clients are loaded before they are sent to, closed before they are deleted, and
\* replaced at any time; still a broadcast reaches each user who was active at most
\* once, in a session of his own, an ending session closes one channel, of its own
\* user, and the process dies of nothing but a broadcast to a user with such a channel.
ImplementsBroadcasting == Messages!Spec

-----------------------------------------------------------------------------
\* Liveness.

\* Send waits on a full channel.
Hangs(s) == target[s] # NoConn /\ target[s] \notin shut /\ buf[target[s]] = ChanSize

\* Once no end is suspended any more, a broadcast comes to its end, unless it hangs
\* for good on a client whose writer has stopped.
BroadcastEndsOrHangs ==
  (\A c \in Conns : <>[](peer[c] # "suspended")) =>
    \A s \in Broadcasters : []<>Idle(s) \/ <>[](Hangs(s) /\ target[s] \notin writer)

\* A dead socket is unregistered, unless its reader hangs in a broadcast.
DeadIsUnregistered ==
  \A c \in Conns : pc[c] = "open" /\ peer[c] = "dead" ~> pc[c] = "closed" \/ Hangs(c)

=============================================================================
