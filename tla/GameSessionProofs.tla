------------------------- MODULE GameSessionProofs -------------------------
(***************************************************************************)
(* Proofs of the safety properties of GameSession for every number of      *)
(* users, sockets and broadcasters, every channel size and all faults.     *)
(***************************************************************************)
EXTENDS GameSession, TLAPS

-----------------------------------------------------------------------------
\* The strengthenings.

\* A handler that is about to close or delete has loaded a client.
LoadedInv == \A c \in Conns : pc[c] \in {"close", "delete"} => loaded[c] # NoConn

\* The map and the ending handlers name sockets of their own user, and a new socket
\* is nowhere.
NamingInv ==
  /\ \A u \in Users : client[u] # NoConn => Owner[client[u]] = u
  /\ \A c \in Conns : loaded[c] # NoConn => Owner[loaded[c]] = Owner[c]
  /\ \A c \in Conns : pc[c] = "new" =>
       /\ c \notin shut
       /\ \A u \in Users : client[u] # c
       /\ \A d \in Conns : loaded[d] # c

\* Of the clients in the map, one that is ending was loaded by its own handler, none
\* is past its deletion, and an ended one, without faults, has a closed channel.
DeletedInv ==
  \A c \in Conns : client[Owner[c]] = c =>
    /\ pc[c] \in {"close", "delete"} => loaded[c] = c
    /\ pc[c] # "deactivate"
    /\ faults = 0 /\ pc[c] = "closed" => c \in shut

\* OpenIsReachable from the moment the client is stored.
ReachInv ==
  \A c \in Conns :
    /\ pc[c] \in {"activate", "open"} =>
         client[Owner[c]] = c \/ \E d \in ConnsOf(Owner[c]) \ {c} : pc[d] # "new"
    /\ pc[c] = "open" =>
         Owner[c] \in active \/ \E d \in ConnsOf(Owner[c]) \ {c} : pc[d] = "closed"

\* A socket's reader runs while the socket is open, and it alone broadcasts for it.
ReaderInv ==
  /\ \A c \in reader : pc[c] = "open"
  /\ \A c \in Conns : Idle(c) \/ c \in reader

\* Who is being sent to is a client that has begun, and is not sent to again.
TargetInv ==
  \A s \in Broadcasters : target[s] # NoConn =>
    /\ pc[target[s]] # "new"
    /\ Owner[target[s]] \notin todo[s]

\* A closed channel of the running process may still cost it its life.
DeathsInv == deaths + (IF shut = {} THEN 0 ELSE 1) <= ends

-----------------------------------------------------------------------------
\* Type correctness.

\* At first there is no session.
LEMMA TypeInit == Init => TypeOK
BY ConstantsAssumption DEF Init, TypeOK, Pcs, Broadcasters

\* The death of the process leaves typed variables.
LEMMA TypeDeath ==
  ASSUME TypeOK, ProcessDies, deaths' \in Nat, faults' \in Nat
  PROVE  TypeOK'
BY ConstantsAssumption DEF TypeOK, ProcessDies, Pcs, Broadcasters

\* Each step of a handler, goroutine, broadcaster or fault keeps the types.
LEMMA TypeNext == TypeOK /\ LoadedInv /\ [Next]_vars => TypeOK'
<1> SUFFICES ASSUME TypeOK, LoadedInv, [Next]_vars PROVE TypeOK'
  OBVIOUS
<1> USE ConstantsAssumption DEF Pcs, Goto, Close, mapVars, sockVars, goVars, chanVars,
        sendVars, histVars
<1>1. ASSUME NEW c \in Conns, StoreClient(c) PROVE TypeOK'
  BY <1>1 DEF StoreClient, TypeOK
<1>2. ASSUME NEW c \in Conns, Handler(c) PROVE TypeOK'
  <2>1. CASE Activate(c)
    BY <2>1 DEF Activate, TypeOK
  <2>2. CASE LoadClient(c)
    BY <2>2 DEF LoadClient, TypeOK
  <2>3. CASE CloseSend(c)
    <3>1. shut' \subseteq Conns
      BY <2>3 DEF CloseSend, TypeOK, LoadedInv
    <3>2. QED
      BY <2>3, <3>1 DEF CloseSend, TypeOK
  <2>4. CASE CloseAgain(c)
    BY <2>4 DEF CloseAgain, TypeOK
  <2>5. CASE DeleteClient(c)
    BY <2>5 DEF DeleteClient, TypeOK
  <2>6. CASE Deactivate(c)
    BY <2>6 DEF Deactivate, TypeOK
  <2> QED
    BY <1>2, <2>1, <2>2, <2>3, <2>4, <2>5, <2>6 DEF Handler
<1>3. ASSUME NEW c \in Conns, PeerChanges(c) PROVE TypeOK'
  BY <1>3 DEF PeerChanges, TypeOK
<1>4. ASSUME NEW c \in Conns, Pinger(c) PROVE TypeOK'
  BY <1>4 DEF Pinger, PingFails, PingerCancelled, TypeOK
<1>5. ASSUME NEW c \in Conns, ReadFails(c) \/ ReaderCancelled(c) PROVE TypeOK'
  BY <1>5 DEF ReadFails, ReaderCancelled, TypeOK
<1>6. ASSUME NEW c \in Conns, Writer(c) PROVE TypeOK'
  <2>1. CASE WriteMessage(c)
    BY <2>1 DEF WriteMessage, TypeOK
  <2>2. CASE WriterEnds(c)
    BY <2>2 DEF WriterEnds, TypeOK
  <2> QED
    BY <1>6, <2>1, <2>2 DEF Writer
<1>7. ASSUME NEW s \in Broadcasters, ListActive(s) PROVE TypeOK'
  BY <1>7 DEF ListActive, TypeOK
<1>8. ASSUME NEW s \in Broadcasters, Broadcast(s) PROVE TypeOK'
  <2>1. ASSUME NEW u \in Users, LoadTarget(s, u) PROVE TypeOK'
    BY <2>1 DEF LoadTarget, TypeOK
  <2>2. CASE Send(s)
    <3>1. buf' \in [Conns -> 0..ChanSize]
      BY <2>2 DEF Send, TypeOK
    <3>2. QED
      BY <2>2, <3>1 DEF Send, TypeOK
  <2>3. CASE SendOnClosed(s)
    BY <2>3, TypeDeath DEF SendOnClosed, TypeOK
  <2> QED
    BY <1>8, <2>1, <2>2, <2>3 DEF Broadcast
<1>9. CASE Faults
  <2>1. ASSUME NEW c \in Conns, ActivateFails(c) \/ DeactivateFails(c) PROVE TypeOK'
    BY <2>1 DEF ActivateFails, DeactivateFails, Fault, TypeOK
  <2>2. CASE Crash
    BY <2>2, TypeDeath DEF Crash, Fault, TypeOK
  <2> QED
    BY <1>9, <2>1, <2>2 DEF Faults
<1>10. CASE UNCHANGED vars
  BY <1>10 DEF vars, TypeOK
<1> QED
  BY <1>1, <1>2, <1>3, <1>4, <1>5, <1>6, <1>7, <1>8, <1>9, <1>10 DEF Next

-----------------------------------------------------------------------------
\* What each invariant reads, and that most steps leave it alone.

\* The death of the process empties the map, the channels and the handlers.
LEMMA DeathClears ==
  ASSUME TypeOK, ProcessDies
  PROVE  /\ \A u \in Users : client'[u] = NoConn
         /\ \A c \in Conns : pc'[c] \in {"new", "closed"} /\ loaded'[c] = NoConn
         /\ shut' = {}
BY DEF TypeOK, ProcessDies

\* A step that is no panic, no crash and none of the steps of a handler leaves the map, client:active, the handlers and the closed channels.
LEMMA OtherSteps ==
  ASSUME [Next]_vars
  PROVE  \/ \E c \in Conns : StoreClient(c) \/ Handler(c) \/ ActivateFails(c) \/ DeactivateFails(c)
         \/ ProcessDies /\ ((shut # {} /\ deaths' = deaths + 1) \/ deaths' = deaths)
         \/ UNCHANGED <<client, active, pc, loaded, shut, ends, deaths, faults>>
<1> USE DEF mapVars, sockVars, goVars, chanVars, sendVars, histVars
<1>1. ASSUME NEW c \in Conns, PeerChanges(c) \/ Pinger(c) \/ ReadFails(c) \/ ReaderCancelled(c)
                              \/ Writer(c)
      PROVE  UNCHANGED <<client, active, pc, loaded, shut, ends, deaths, faults>>
  BY <1>1 DEF PeerChanges, Pinger, PingFails, PingerCancelled, ReadFails, ReaderCancelled,
              Writer, WriteMessage, WriterEnds
<1>2. ASSUME NEW s \in Broadcasters, ListActive(s)
      PROVE  UNCHANGED <<client, active, pc, loaded, shut, ends, deaths, faults>>
  BY <1>2 DEF ListActive
<1>3. ASSUME NEW s \in Broadcasters, NEW u \in Users, LoadTarget(s, u)
      PROVE  UNCHANGED <<client, active, pc, loaded, shut, ends, deaths, faults>>
  BY <1>3 DEF LoadTarget
<1>4. ASSUME NEW s \in Broadcasters, Send(s)
      PROVE  UNCHANGED <<client, active, pc, loaded, shut, ends, deaths, faults>>
  BY <1>4 DEF Send
<1>5. ASSUME NEW s \in Broadcasters, SendOnClosed(s)
      PROVE  ProcessDies /\ shut # {} /\ deaths' = deaths + 1
  BY <1>5 DEF SendOnClosed
<1>6. ASSUME Crash
      PROVE  ProcessDies /\ deaths' = deaths
  BY <1>6 DEF Crash
<1>7. ASSUME UNCHANGED vars
      PROVE  UNCHANGED <<client, active, pc, loaded, shut, ends, deaths, faults>>
  BY <1>7 DEF vars
<1> QED
  BY <1>1, <1>2, <1>3, <1>4, <1>5, <1>6, <1>7 DEF Next, Broadcast, Faults

\* Each step keeps LoadedInv: a handler leaves LoadClient for the closing with a client.
LEMMA LoadedNext == TypeOK /\ LoadedInv /\ [Next]_vars => LoadedInv'
<1> SUFFICES ASSUME TypeOK, LoadedInv, [Next]_vars PROVE LoadedInv'
  OBVIOUS
<1> USE DEF LoadedInv, TypeOK
<1>1. ASSUME NEW c \in Conns, StoreClient(c) \/ ActivateFails(c) \/ DeactivateFails(c)
      PROVE  LoadedInv'
  BY <1>1 DEF StoreClient, ActivateFails, DeactivateFails, Goto
<1>2. ASSUME NEW c \in Conns, Handler(c) PROVE LoadedInv'
  <2>1. CASE Activate(c)
    BY <2>1 DEF Activate, Goto
  <2>2. CASE LoadClient(c)
    BY <2>2 DEF LoadClient
  <2>3. CASE CloseSend(c)
    BY <2>3 DEF CloseSend, Goto
  <2>4. CASE CloseAgain(c)
    BY <2>4 DEF CloseAgain, Goto
  <2>5. CASE DeleteClient(c)
    BY <2>5 DEF DeleteClient, Goto
  <2>6. CASE Deactivate(c)
    BY <2>6 DEF Deactivate, Goto
  <2> QED
    BY <1>2, <2>1, <2>2, <2>3, <2>4, <2>5, <2>6 DEF Handler
<1>3. CASE ProcessDies
  BY <1>3, DeathClears
<1>4. CASE UNCHANGED <<client, active, pc, loaded, shut, ends, deaths, faults>>
  BY <1>4
<1> QED
  BY <1>1, <1>2, <1>3, <1>4, OtherSteps

\* Each step keeps NamingInv: a socket is stored once, for its owner.
LEMMA NamingNext == TypeOK /\ NamingInv /\ [Next]_vars => NamingInv'
<1> SUFFICES ASSUME TypeOK, NamingInv, [Next]_vars PROVE NamingInv'
  OBVIOUS
<1> USE ConstantsAssumption DEF NamingInv, TypeOK
<1>1. ASSUME NEW c \in Conns, StoreClient(c) PROVE NamingInv'
  BY <1>1 DEF StoreClient, Goto, chanVars
<1>2. ASSUME NEW c \in Conns, ActivateFails(c) \/ DeactivateFails(c) PROVE NamingInv'
  BY <1>2 DEF ActivateFails, DeactivateFails, Goto, mapVars, chanVars
<1>3. ASSUME NEW c \in Conns, Handler(c) PROVE NamingInv'
  <2>1. CASE Activate(c)
    BY <2>1 DEF Activate, Goto, chanVars
  <2>2. CASE LoadClient(c)
    BY <2>2 DEF LoadClient, mapVars, chanVars
  <2>3. CASE CloseSend(c)
    BY <2>3 DEF CloseSend, Goto, mapVars
  <2>4. CASE CloseAgain(c)
    BY <2>4 DEF CloseAgain, Goto, mapVars, chanVars
  <2>5. CASE DeleteClient(c)
    BY <2>5 DEF DeleteClient, Goto, chanVars
  <2>6. CASE Deactivate(c)
    BY <2>6 DEF Deactivate, Goto, chanVars
  <2> QED
    BY <1>3, <2>1, <2>2, <2>3, <2>4, <2>5, <2>6 DEF Handler
<1>4. CASE ProcessDies
  BY <1>4, DeathClears
<1>5. CASE UNCHANGED <<client, active, pc, loaded, shut, ends, deaths, faults>>
  BY <1>5
<1> QED
  BY <1>1, <1>2, <1>3, <1>4, <1>5, OtherSteps

\* Each step keeps DeletedInv: only a new socket enters the map, and a handler that
\* panics has found its client closed.
LEMMA DeletedNext == TypeOK /\ NamingInv /\ DeletedInv /\ [Next]_vars => DeletedInv'
<1> SUFFICES ASSUME TypeOK, NamingInv, DeletedInv, [Next]_vars PROVE DeletedInv'
  OBVIOUS
<1> USE ConstantsAssumption DEF DeletedInv, TypeOK
<1>1. ASSUME NEW c \in Conns, StoreClient(c) PROVE DeletedInv'
  BY <1>1 DEF StoreClient, Goto, chanVars
<1>2. ASSUME NEW c \in Conns, ActivateFails(c) \/ DeactivateFails(c) PROVE DeletedInv'
  BY <1>2 DEF ActivateFails, DeactivateFails, Fault, Goto, mapVars, chanVars
<1>3. ASSUME NEW c \in Conns, Handler(c) PROVE DeletedInv'
  <2>1. CASE Activate(c)
    BY <2>1 DEF Activate, Goto, chanVars
  <2>2. CASE LoadClient(c)
    BY <2>2 DEF LoadClient, mapVars, chanVars
  <2>3. CASE CloseSend(c)
    BY <2>3 DEF CloseSend, Goto, mapVars
  <2>4. CASE CloseAgain(c)
    BY <2>4 DEF CloseAgain, Goto, mapVars, chanVars
  <2>5. CASE DeleteClient(c)
    BY <2>5 DEF DeleteClient, Goto, chanVars
  <2>6. CASE Deactivate(c)
    BY <2>6 DEF Deactivate, Goto, chanVars
  <2> QED
    BY <1>3, <2>1, <2>2, <2>3, <2>4, <2>5, <2>6 DEF Handler
<1>4. CASE ProcessDies
  BY <1>4, DeathClears
<1>5. CASE UNCHANGED <<client, active, pc, loaded, shut, ends, deaths, faults>>
  BY <1>5
<1> QED
  BY <1>1, <1>2, <1>3, <1>4, <1>5, OtherSteps

\* Each step keeps ReachInv: who takes a user's entry away is another socket of the user.
LEMMA ReachNext == TypeOK /\ ReachInv /\ [Next]_vars => ReachInv'
<1> SUFFICES ASSUME TypeOK, ReachInv, [Next]_vars PROVE ReachInv'
  OBVIOUS
<1> USE ConstantsAssumption DEF ReachInv, TypeOK, ConnsOf
<1>1. ASSUME NEW c \in Conns, StoreClient(c) PROVE ReachInv'
  BY <1>1 DEF StoreClient, Goto
<1>2. ASSUME NEW c \in Conns, ActivateFails(c) \/ DeactivateFails(c) PROVE ReachInv'
  BY <1>2 DEF ActivateFails, DeactivateFails, Goto, mapVars
<1>3. ASSUME NEW c \in Conns, Handler(c) PROVE ReachInv'
  <2>1. CASE Activate(c)
    BY <2>1 DEF Activate, Goto
  <2>2. CASE LoadClient(c)
    BY <2>2 DEF LoadClient, mapVars
  <2>3. CASE CloseSend(c)
    BY <2>3 DEF CloseSend, Goto, mapVars
  <2>4. CASE CloseAgain(c)
    BY <2>4 DEF CloseAgain, Goto, mapVars
  <2>5. CASE DeleteClient(c)
    BY <2>5 DEF DeleteClient, Goto
  <2>6. CASE Deactivate(c)
    BY <2>6 DEF Deactivate, Goto
  <2> QED
    BY <1>3, <2>1, <2>2, <2>3, <2>4, <2>5, <2>6 DEF Handler
<1>4. CASE ProcessDies
  BY <1>4, DeathClears
<1>5. CASE UNCHANGED <<client, active, pc, loaded, shut, ends, deaths, faults>>
  BY <1>5
<1> QED
  BY <1>1, <1>2, <1>3, <1>4, <1>5, OtherSteps

\* Each step keeps ShutOnlyWhileDeleting: a handler closes the client of its own user,
\* and a new client is open.
LEMMA ShutNext ==
  TypeOK /\ LoadedInv /\ NamingInv /\ ShutOnlyWhileDeleting /\ [Next]_vars
    => ShutOnlyWhileDeleting'
<1> SUFFICES ASSUME TypeOK, LoadedInv, NamingInv, ShutOnlyWhileDeleting, [Next]_vars
             PROVE  ShutOnlyWhileDeleting'
  OBVIOUS
<1> USE ConstantsAssumption DEF ShutOnlyWhileDeleting, NamingInv, LoadedInv, TypeOK, ConnsOf
<1>1. ASSUME NEW c \in Conns, StoreClient(c) PROVE ShutOnlyWhileDeleting'
  BY <1>1 DEF StoreClient, Goto, chanVars
<1>2. ASSUME NEW c \in Conns, ActivateFails(c) \/ DeactivateFails(c) PROVE ShutOnlyWhileDeleting'
  BY <1>2 DEF ActivateFails, DeactivateFails, Goto, mapVars, chanVars
<1>3. ASSUME NEW c \in Conns, Handler(c) PROVE ShutOnlyWhileDeleting'
  <2>1. CASE Activate(c)
    BY <2>1 DEF Activate, Goto, chanVars
  <2>2. CASE LoadClient(c)
    BY <2>2 DEF LoadClient, mapVars, chanVars
  <2>3. CASE CloseSend(c)
    BY <2>3 DEF CloseSend, Goto, mapVars
  <2>4. CASE CloseAgain(c)
    BY <2>4 DEF CloseAgain, Goto, mapVars, chanVars
  <2>5. CASE DeleteClient(c)
    BY <2>5 DEF DeleteClient, Goto, chanVars
  <2>6. CASE Deactivate(c)
    BY <2>6 DEF Deactivate, Goto, chanVars
  <2> QED
    BY <1>3, <2>1, <2>2, <2>3, <2>4, <2>5, <2>6 DEF Handler
<1>4. CASE ProcessDies
  BY <1>4, DeathClears
<1>5. CASE UNCHANGED <<client, active, pc, loaded, shut, ends, deaths, faults>>
  BY <1>5
<1> QED
  BY <1>1, <1>2, <1>3, <1>4, <1>5, OtherSteps

\* Each step keeps DeathsInv: a panic needs a closed channel, and a new process has none.
LEMMA DeathsNext == TypeOK /\ DeathsInv /\ [Next]_vars => DeathsInv'
<1> SUFFICES ASSUME TypeOK, DeathsInv, [Next]_vars PROVE DeathsInv'
  OBVIOUS
<1> USE DEF DeathsInv, TypeOK
<1>1. ASSUME NEW c \in Conns, StoreClient(c) PROVE DeathsInv'
  BY <1>1 DEF StoreClient, Goto, chanVars, histVars
<1>2. ASSUME NEW c \in Conns, ActivateFails(c) \/ DeactivateFails(c) PROVE DeathsInv'
  BY <1>2 DEF ActivateFails, DeactivateFails, Goto, chanVars, histVars
<1>3. ASSUME NEW c \in Conns, Handler(c) PROVE DeathsInv'
  <2>1. CASE Activate(c)
    BY <2>1 DEF Activate, Goto, chanVars, histVars
  <2>2. CASE LoadClient(c)
    BY <2>2 DEF LoadClient, chanVars, histVars
  <2>3. CASE CloseSend(c)
    BY <2>3 DEF CloseSend, Goto
  <2>4. CASE CloseAgain(c)
    BY <2>4 DEF CloseAgain, Goto, chanVars, histVars
  <2>5. CASE DeleteClient(c)
    BY <2>5 DEF DeleteClient, Goto, chanVars, histVars
  <2>6. CASE Deactivate(c)
    BY <2>6 DEF Deactivate, Goto, chanVars, histVars
  <2> QED
    BY <1>3, <2>1, <2>2, <2>3, <2>4, <2>5, <2>6 DEF Handler
<1>4. CASE ProcessDies /\ ((shut # {} /\ deaths' = deaths + 1) \/ deaths' = deaths)
  BY <1>4, DeathClears DEF ProcessDies
<1>5. CASE UNCHANGED <<client, active, pc, loaded, shut, ends, deaths, faults>>
  BY <1>5
<1> QED
  BY <1>1, <1>2, <1>3, <1>4, <1>5, OtherSteps

\* Each step keeps ReaderInv: a handler waits for its reader, which waits for its message.
LEMMA ReaderNext == TypeOK /\ ReaderInv /\ [Next]_vars => ReaderInv'
<1> SUFFICES ASSUME TypeOK, ReaderInv, [Next]_vars PROVE ReaderInv'
  OBVIOUS
<1> USE ConstantsAssumption DEF ReaderInv, Idle, TypeOK, Broadcasters, sendVars, goVars,
        sockVars
<1>1. ASSUME NEW c \in Conns, StoreClient(c) \/ ActivateFails(c) \/ DeactivateFails(c)
      PROVE  ReaderInv'
  BY <1>1 DEF StoreClient, ActivateFails, DeactivateFails, Goto
<1>2. ASSUME NEW c \in Conns, Handler(c) PROVE ReaderInv'
  <2>1. CASE Activate(c)
    BY <2>1 DEF Activate, Goto
  <2>2. CASE LoadClient(c)
    BY <2>2 DEF LoadClient
  <2>3. CASE CloseSend(c)
    BY <2>3 DEF CloseSend, Goto
  <2>4. CASE CloseAgain(c)
    BY <2>4 DEF CloseAgain, Goto
  <2>5. CASE DeleteClient(c)
    BY <2>5 DEF DeleteClient, Goto
  <2>6. CASE Deactivate(c)
    BY <2>6 DEF Deactivate, Goto
  <2> QED
    BY <1>2, <2>1, <2>2, <2>3, <2>4, <2>5, <2>6 DEF Handler
<1>3. ASSUME NEW c \in Conns, ReadFails(c) \/ ReaderCancelled(c) PROVE ReaderInv'
  BY <1>3 DEF ReadFails, ReaderCancelled
<1>4. ASSUME NEW c \in Conns, PeerChanges(c) \/ Pinger(c) \/ Writer(c) PROVE ReaderInv'
  BY <1>4 DEF PeerChanges, Pinger, PingFails, PingerCancelled, Writer, WriteMessage, WriterEnds
<1>5. ASSUME NEW s \in Broadcasters, ListActive(s) PROVE ReaderInv'
  BY <1>5 DEF ListActive
<1>6. ASSUME NEW s \in Broadcasters, (\E u \in Users : LoadTarget(s, u)) \/ Send(s)
      PROVE  ReaderInv'
  BY <1>6 DEF LoadTarget, Send
<1>7. CASE ProcessDies
  BY <1>7 DEF ProcessDies
<1>8. CASE UNCHANGED vars
  BY <1>8 DEF vars
<1> QED
  BY <1>1, <1>2, <1>3, <1>4, <1>5, <1>6, <1>7, <1>8
     DEF Next, Broadcast, Faults, SendOnClosed, Crash

\* Each step keeps TargetInv: whom a broadcaster loads is of the user it was looking for.
LEMMA TargetNext == TypeOK /\ NamingInv /\ TargetInv /\ [Next]_vars => TargetInv'
<1> SUFFICES ASSUME TypeOK, NamingInv, TargetInv, [Next]_vars PROVE TargetInv'
  OBVIOUS
<1> USE ConstantsAssumption DEF TargetInv, TypeOK, sendVars, sockVars
<1>1. ASSUME NEW c \in Conns, StoreClient(c) \/ ActivateFails(c) \/ DeactivateFails(c)
      PROVE  TargetInv'
  BY <1>1 DEF StoreClient, ActivateFails, DeactivateFails, Goto
<1>2. ASSUME NEW c \in Conns, Handler(c) PROVE TargetInv'
  BY <1>2 DEF Handler, Activate, LoadClient, CloseSend, CloseAgain, DeleteClient, Deactivate, Goto
<1>3. ASSUME NEW c \in Conns,
             PeerChanges(c) \/ Pinger(c) \/ ReadFails(c) \/ ReaderCancelled(c) \/ Writer(c)
      PROVE  TargetInv'
  BY <1>3 DEF PeerChanges, Pinger, PingFails, PingerCancelled, ReadFails, ReaderCancelled,
              Writer, WriteMessage, WriterEnds
<1>4. ASSUME NEW s \in Broadcasters, ListActive(s) PROVE TargetInv'
  BY <1>4 DEF ListActive, Idle
<1>5. ASSUME NEW s \in Broadcasters, NEW u \in Users, LoadTarget(s, u) PROVE TargetInv'
  BY <1>5 DEF LoadTarget, NamingInv
<1>6. ASSUME NEW s \in Broadcasters, Send(s) PROVE TargetInv'
  BY <1>6 DEF Send
<1>7. CASE ProcessDies
  BY <1>7 DEF ProcessDies
<1>8. CASE UNCHANGED vars
  BY <1>8 DEF vars
<1> QED
  BY <1>1, <1>2, <1>3, <1>4, <1>5, <1>6, <1>7, <1>8
     DEF Next, Broadcast, Faults, SendOnClosed, Crash

-----------------------------------------------------------------------------
\* The inductive invariant.

IInv ==
  /\ TypeOK
  /\ LoadedInv
  /\ NamingInv
  /\ DeletedInv
  /\ ReachInv
  /\ ShutOnlyWhileDeleting
  /\ ReaderInv
  /\ TargetInv
  /\ DeathsInv

\* At first every socket is new, and the map and the channels are empty.
LEMMA IInvInit == Init => IInv
<1> SUFFICES ASSUME Init PROVE IInv
  OBVIOUS
<1>1. TypeOK
  BY TypeInit
<1>2. LoadedInv /\ NamingInv /\ DeletedInv /\ ReachInv /\ ShutOnlyWhileDeleting
  BY ConstantsAssumption
     DEF Init, LoadedInv, NamingInv, DeletedInv, ReachInv, ShutOnlyWhileDeleting
<1>3. ReaderInv /\ TargetInv
  BY DEF Init, ReaderInv, TargetInv, Idle, Broadcasters
<1>4. DeathsInv
  BY DEF Init, DeathsInv
<1> QED
  BY <1>1, <1>2, <1>3, <1>4 DEF IInv

\* The conjunction of the invariants is inductive.
THEOREM Invariance == Spec => []IInv
<1>1. IInv /\ [Next]_vars => IInv'
  BY TypeNext, LoadedNext, NamingNext, DeletedNext, ReachNext, ShutNext, ReaderNext,
     TargetNext, DeathsNext DEF IInv
<1> QED
  BY IInvInit, <1>1, PTL DEF Spec

-----------------------------------------------------------------------------
\* The variables keep their types: no channel holds more than its capacity.
THEOREM TypeCorrect == Spec => []TypeOK
<1>1. IInv => TypeOK
  BY DEF IInv
<1> QED
  BY Invariance, <1>1, PTL

\* Without a fault the clients map keeps a client whose handler has ended only until
\* another handler has deleted it, however a user's sockets begin and end.
THEOREM NoDeadClients == Spec => []NoDeadClient
<1>1. IInv => NoDeadClient
  BY DEF IInv, TypeOK, NamingInv, DeletedInv, ShutOnlyWhileDeleting, NoDeadClient
<1> QED
  BY Invariance, <1>1, PTL

\* A closed channel is in the map only while the handler that closed it is about to
\* delete it.
THEOREM ShutIsTransient == Spec => []ShutOnlyWhileDeleting
<1>1. IInv => ShutOnlyWhileDeleting
  BY DEF IInv
<1> QED
  BY Invariance, <1>1, PTL

\* An open socket leaves the map only for another one of its user, and
\* client:active only after another one has ended.
THEOREM OpenSocketsAreReachable == Spec => []OpenIsReachable
<1>1. IInv => OpenIsReachable
  BY DEF IInv, ReachInv, OpenIsReachable
<1> QED
  BY Invariance, <1>1, PTL

\* The process panics at most once for each channel that an ending session closed.
THEOREM DeathsAreBounded == Spec => []DeathsBounded
<1>1. IInv => DeathsBounded
  BY DEF IInv, TypeOK, DeathsInv, DeathsBounded
<1> QED
  BY Invariance, <1>1, PTL

-----------------------------------------------------------------------------
\* Refinement.

\* The phase of each position.
LEMMA PhaseValues ==
  /\ PhaseOf["new"] = "new"
  /\ PhaseOf["activate"] = "open"
  /\ PhaseOf["open"] = "open"
  /\ PhaseOf["close"] = "ending"
  /\ PhaseOf["delete"] = "leaving"
  /\ PhaseOf["deactivate"] = "leaving"
  /\ PhaseOf["closed"] = "gone"
BY DEF PhaseOf, Pcs

\* The position of a handler decides the phase of its session.
LEMMA PhaseMoves ==
  ASSUME TypeOK, NEW c \in Conns, NEW to \in Pcs, pc' = [pc EXCEPT ![c] = to]
  PROVE  /\ Phase[c] = PhaseOf[pc[c]]
         /\ Phase' = [Phase EXCEPT ![c] = PhaseOf[to]]
BY DEF Phase, TypeOK

\* Who has not begun is new in either sense.
LEMMA PhaseNew ==
  ASSUME TypeOK, NEW c \in Conns
  PROVE  /\ Phase[c] = "new" <=> pc[c] = "new"
         /\ Phase[c] = "open" <=> pc[c] \in {"activate", "open"}
<1>1. pc[c] \in Pcs /\ Phase[c] = PhaseOf[pc[c]]
  BY DEF TypeOK, Phase
<1> QED
  BY <1>1, PhaseValues DEF Pcs

\* What has not been sent yet changes only with the broadcasters.
LEMMA Kept ==
  /\ UNCHANGED pc => UNCHANGED Phase
  /\ UNCHANGED <<todo, target>> => UNCHANGED Pending
BY DEF Phase, Pending

\* An idle broadcaster has nobody left to send to, and only an idle one.
LEMMA PendingIdle ==
  ASSUME TypeOK, NEW s \in Broadcasters
  PROVE  Pending[s] = {} <=> Idle(s)
BY DEF Pending, Idle, TypeOK

\* One who is sending has the user of the target left.
LEMMA PendingTarget ==
  ASSUME TypeOK, NEW s \in Broadcasters, target[s] # NoConn
  PROVE  Pending[s] = todo[s] \cup {Owner[target[s]]}
BY DEF Pending, TypeOK

\* Each step of a handler is one of its session, or none.
LEMMA HandlerStep ==
  ASSUME IInv, NEW c \in Conns, Handler(c)
  PROVE  [Messages!Next]_(Messages!vars)
<1> USE DEF mapVars, sockVars, goVars, chanVars, sendVars, histVars
<1> TypeOK
  BY DEF IInv
<1> c \in Broadcasters
  BY DEF Broadcasters
<1>1. CASE Activate(c)
  <2>1. Phase[c] = "open" /\ Phase' = Phase
    <3>1. Phase[c] = PhaseOf[pc[c]] /\ Phase' = [Phase EXCEPT ![c] = PhaseOf["open"]]
      BY <1>1, PhaseMoves DEF Activate, Goto, Pcs
    <3>2. Phase[c] = "open" /\ PhaseOf["open"] = "open"
      BY <1>1, PhaseNew, PhaseValues DEF Activate, Goto
    <3> QED
      BY <3>1, <3>2 DEF Phase
  <2>2. Messages!Enter(c)
    BY <1>1, <2>1, Kept DEF Activate, Messages!Enter
  <2> QED
    BY <2>2 DEF Messages!Next
<1>2. CASE LoadClient(c)
  <2>1. Pending[c] = {}
    BY <1>2, PendingIdle DEF IInv, ReaderInv, LoadClient
  <2>2. PICK to \in {"close", "deactivate"} : pc' = [pc EXCEPT ![c] = to]
    BY <1>2 DEF LoadClient
  <2>3. Phase[c] = "open" /\ Phase' = [Phase EXCEPT ![c] = PhaseOf[to]]
    BY <1>2, <2>2, PhaseMoves, PhaseNew DEF LoadClient, Pcs
  <2>4. PhaseOf[to] \in {"ending", "leaving"}
    BY PhaseValues
  <2>5. Messages!Finish(c)
    BY <1>2, <2>1, <2>3, <2>4, Kept DEF LoadClient, Messages!Finish, Messages!Move
  <2> QED
    BY <2>5 DEF Messages!Next
<1>3. CASE CloseSend(c)
  <2>1. Phase[c] = "ending" /\ Phase' = [Phase EXCEPT ![c] = "leaving"]
    <3>1. Phase[c] = PhaseOf["close"] /\ Phase' = [Phase EXCEPT ![c] = PhaseOf["delete"]]
      BY <1>3, PhaseMoves DEF CloseSend, Goto, Pcs
    <3> QED
      BY <3>1, PhaseValues
  <2>2. /\ loaded[c] \in Conns
        /\ Owner[loaded[c]] = Owner[c]
        /\ pc[loaded[c]] # "new"
    BY <1>3 DEF CloseSend, Goto, IInv, LoadedInv, NamingInv, TypeOK
  <2>3. Phase[loaded[c]] # "new"
    BY <2>2, PhaseNew
  <2>4. Messages!Seal(c, loaded[c])
    BY <1>3, <2>1, <2>2, <2>3, Kept DEF CloseSend, Messages!Seal, Messages!Move
  <2> QED
    BY <2>2, <2>4 DEF Messages!Next
<1>4. CASE CloseAgain(c)
  <2>1. Phase[c] = "ending" /\ Phase' = [Phase EXCEPT ![c] = "gone"]
    <3>1. Phase[c] = PhaseOf["close"] /\ Phase' = [Phase EXCEPT ![c] = PhaseOf["closed"]]
      BY <1>4, PhaseMoves DEF CloseAgain, Goto, Pcs
    <3> QED
      BY <3>1, PhaseValues
  <2>2. loaded[c] \in shut /\ Owner[loaded[c]] = Owner[c]
    BY <1>4 DEF CloseAgain, Goto, IInv, LoadedInv, NamingInv
  <2>3. Messages!Trip(c)
    BY <1>4, <2>1, <2>2, Kept DEF CloseAgain, Messages!Trip, Messages!Move
  <2> QED
    BY <2>3 DEF Messages!Next
<1>5. CASE DeleteClient(c)
  <2>1. Phase' = Phase
    <3>1. Phase[c] = PhaseOf[pc[c]] /\ Phase' = [Phase EXCEPT ![c] = PhaseOf["deactivate"]]
      BY <1>5, PhaseMoves DEF DeleteClient, Goto, Pcs
    <3>2. PhaseOf[pc[c]] = PhaseOf["deactivate"]
      BY <1>5, PhaseValues DEF DeleteClient, Goto
    <3> QED
      BY <3>1, <3>2 DEF Phase
  <2> QED
    BY <1>5, <2>1, Kept DEF DeleteClient, Messages!vars
<1>6. CASE Deactivate(c)
  <2>1. Phase[c] = "leaving" /\ Phase' = [Phase EXCEPT ![c] = "gone"]
    <3>1. Phase[c] = PhaseOf["deactivate"] /\ Phase' = [Phase EXCEPT ![c] = PhaseOf["closed"]]
      BY <1>6, PhaseMoves DEF Deactivate, Goto, Pcs
    <3> QED
      BY <3>1, PhaseValues
  <2>2. Messages!Leave(c)
    BY <1>6, <2>1, Kept DEF Deactivate, Messages!Leave, Messages!Move
  <2> QED
    BY <2>2 DEF Messages!Next
<1> QED
  BY <1>1, <1>2, <1>3, <1>4, <1>5, <1>6, Handler(c) DEF Handler

\* A handler that returns early, or without HDEL, is a failing session.
LEMMA FailStep ==
  ASSUME IInv, NEW c \in Conns, ActivateFails(c) \/ DeactivateFails(c)
  PROVE  [Messages!Next]_(Messages!vars)
<1> USE DEF mapVars, sockVars, goVars, chanVars, sendVars, histVars
<1> TypeOK
  BY DEF IInv
<1>1. Pending[c] = {}
  <2>1. pc[c] # "open" /\ c \in Broadcasters
    BY DEF ActivateFails, DeactivateFails, Goto, Broadcasters
  <2> QED
    BY <2>1, PendingIdle DEF IInv, ReaderInv
<1>2. Phase[c] \in {"open", "leaving"} /\ Phase' = [Phase EXCEPT ![c] = "gone"]
  BY PhaseMoves, PhaseValues DEF ActivateFails, DeactivateFails, Goto, Pcs
<1>3. Messages!Fail(c)
  BY <1>1, <1>2, Kept
     DEF ActivateFails, DeactivateFails, Fault, Messages!Fail, Messages!Move
<1> QED
  BY <1>3 DEF Messages!Next

\* The death of the process, whatever it dies of.
LEMMA CollapseStep ==
  ASSUME TypeOK, ProcessDies
  PROVE  Messages!Collapse
<1>1. Phase' = [c \in Conns |-> IF Phase[c] = "new" THEN "new" ELSE "gone"]
  <2>1. ASSUME NEW c \in Conns
        PROVE  Phase'[c] = IF Phase[c] = "new" THEN "new" ELSE "gone"
    <3>1. pc'[c] = IF pc[c] = "new" THEN "new" ELSE "closed"
      BY DEF ProcessDies
    <3>2. Phase'[c] = PhaseOf[pc'[c]]
      BY DEF Phase
    <3> QED
      BY <3>1, <3>2, PhaseNew, PhaseValues
  <2> QED
    BY <2>1 DEF Phase
<1>2. Pending' = [s \in Broadcasters |-> {}]
  BY DEF ProcessDies, Pending
<1> QED
  BY <1>1, <1>2 DEF ProcessDies, Messages!Collapse, Messages!Senders, Broadcasters

\* A step of a broadcaster starts a broadcast, ends or passes over one of its messages,
\* or, when it only looks a user up, is none.
LEMMA BroadcastStep ==
  ASSUME IInv, NEW s \in Broadcasters, ListActive(s) \/ Broadcast(s)
  PROVE  [Messages!Next]_(Messages!vars)
<1> USE DEF mapVars, sockVars, goVars, chanVars, sendVars, histVars
<1> TypeOK
  BY DEF IInv
<1> s \in Messages!Senders
  BY DEF Broadcasters, Messages!Senders
<1>1. CASE ListActive(s)
  <2>1. Pending[s] = {}
    BY <1>1, PendingIdle DEF ListActive
  <2>2. Pending' = [Pending EXCEPT ![s] = active]
    BY <1>1 DEF ListActive, Idle, Pending, TypeOK
  <2>3. s \in Conns => Phase[s] = "open"
    BY <1>1, PhaseNew DEF ListActive, IInv, ReaderInv
  <2>4. Messages!Start(s)
    BY <1>1, <2>1, <2>2, <2>3, Kept DEF ListActive, Messages!Start
  <2> QED
    BY <2>4 DEF Messages!Next
<1>2. ASSUME NEW u \in Users, LoadTarget(s, u) PROVE [Messages!Next]_(Messages!vars)
  <2>1. u \in Pending[s]
    BY <1>2 DEF LoadTarget, Pending
  <2>2. CASE client[u] = NoConn
    <3>1. Pending' = [Pending EXCEPT ![s] = @ \ {u}]
      BY <1>2, <2>2 DEF LoadTarget, Pending, TypeOK
    <3>2. Messages!Skip(s, u)
      BY <1>2, <2>1, <3>1, Kept DEF LoadTarget, Messages!Skip
    <3> QED
      BY <3>2 DEF Messages!Next
  <2>3. CASE client[u] # NoConn
    <3>1. Owner[client[u]] = u
      BY <2>3 DEF IInv, NamingInv
    <3>2. Pending' = Pending
      BY <1>2, <2>3, <3>1 DEF LoadTarget, Pending, TypeOK
    <3> QED
      BY <1>2, <3>2, Kept DEF LoadTarget, Messages!vars
  <2> QED
    BY <2>2, <2>3
<1>3. CASE Send(s)
  <2> DEFINE d == target[s]
  <2>1. d \in Conns /\ d # NoConn
    BY <1>3 DEF Send, TypeOK
  <2>2. Pending[s] = todo[s] \cup {Owner[d]}
    BY <2>1, PendingTarget
  <2>3. Owner[d] \notin todo[s] /\ Phase[d] # "new"
    BY <2>1, PhaseNew DEF IInv, TargetInv
  <2>4. Pending' = [Pending EXCEPT ![s] = todo[s]]
    BY <1>3 DEF Send, Pending, TypeOK
  <2>5. Pending' = [Pending EXCEPT ![s] = @ \ {Owner[d]}]
    <3>1. todo[s] = Pending[s] \ {Owner[d]}
      BY <2>2, <2>3
    <3> QED
      BY <2>4, <3>1
  <2>6. Messages!Deliver(s, d)
    BY <1>3, <2>2, <2>3, <2>5, Kept DEF Send, Messages!Deliver
  <2> QED
    BY <2>1, <2>6 DEF Messages!Next
<1>4. CASE SendOnClosed(s)
  <2>1. target[s] \in shut /\ target[s] # NoConn
    BY <1>4, ConstantsAssumption DEF SendOnClosed, TypeOK
  <2>2. Owner[target[s]] \in Pending[s]
    BY <2>1, PendingTarget
  <2>3. Messages!Collapse
    BY <1>4, CollapseStep DEF SendOnClosed
  <2>4. Messages!Die
    BY <1>4, <2>1, <2>2, <2>3 DEF SendOnClosed, Messages!Die
  <2> QED
    BY <2>4 DEF Messages!Next
<1> QED
  BY <1>1, <1>2, <1>3, <1>4 DEF Broadcast

\* Each step of the sessions and broadcasts is a step of Broadcasting, or none.
LEMMA BroadcastingStep == IInv /\ [Next]_vars => [Messages!Next]_(Messages!vars)
<1> SUFFICES ASSUME IInv, [Next]_vars PROVE [Messages!Next]_(Messages!vars)
  OBVIOUS
<1> USE DEF mapVars, sockVars, goVars, chanVars, sendVars, histVars
<1> TypeOK
  BY DEF IInv
<1>1. ASSUME NEW c \in Conns, StoreClient(c) PROVE [Messages!Next]_(Messages!vars)
  <2>1. Phase[c] = "new" /\ Phase' = [Phase EXCEPT ![c] = "open"]
    <3>1. Phase[c] = PhaseOf["new"] /\ Phase' = [Phase EXCEPT ![c] = PhaseOf["activate"]]
      BY <1>1, PhaseMoves DEF StoreClient, Goto, Pcs
    <3> QED
      BY <3>1, PhaseValues
  <2>2. Messages!Begin(c)
    BY <1>1, <2>1, Kept DEF StoreClient, Messages!Begin, Messages!Move
  <2> QED
    BY <2>2 DEF Messages!Next
<1>2. ASSUME NEW c \in Conns, WriteMessage(c) PROVE [Messages!Next]_(Messages!vars)
  <2>1. Messages!Take(c)
    BY <1>2, Kept DEF WriteMessage, Messages!Take
  <2> QED
    BY <2>1 DEF Messages!Next
<1>3. ASSUME NEW c \in Conns,
             PeerChanges(c) \/ Pinger(c) \/ ReadFails(c) \/ ReaderCancelled(c) \/ WriterEnds(c)
      PROVE  [Messages!Next]_(Messages!vars)
  BY <1>3, Kept DEF PeerChanges, Pinger, PingFails, PingerCancelled, ReadFails,
                    ReaderCancelled, WriterEnds, Messages!vars
<1>4. CASE Crash
  <2>1. Messages!Restart
    BY <1>4, CollapseStep DEF Crash, Fault, Messages!Restart
  <2> QED
    BY <2>1 DEF Messages!Next
<1>5. CASE UNCHANGED vars
  BY <1>5, Kept DEF vars, Messages!vars
<1> QED
  BY <1>1, <1>2, <1>3, <1>4, <1>5, HandlerStep, FailStep, BroadcastStep DEF Next, Writer, Faults

\* For any number of users, sockets and broadcasters, any channel size, and whatever
\* fails: sessions end, and messages are delivered, as Broadcasting says.
THEOREM SessionsAreBroadcasting == Spec => ImplementsBroadcasting
<1>1. Init => Messages!Init
  <2> SUFFICES ASSUME Init PROVE Messages!Init
    OBVIOUS
  <2>1. Phase = [c \in Conns |-> "new"]
    BY PhaseValues DEF Init, Phase
  <2>2. Pending = [s \in Broadcasters |-> {}]
    BY DEF Init, Pending
  <2> QED
    BY <2>1, <2>2 DEF Init, Messages!Init, Messages!Senders, Broadcasters
<1>2. IInv /\ [Next]_vars => [Messages!Next]_(Messages!vars)
  BY BroadcastingStep
<1> QED
  BY <1>1, <1>2, Invariance, PTL DEF Spec, ImplementsBroadcasting, Messages!Spec
=============================================================================
