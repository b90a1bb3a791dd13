--------------------------- MODULE MatchingProofs ---------------------------
(***************************************************************************)
(* Theorems of Matching, for every set of users, connections and ages.     *)
(***************************************************************************)
EXTENDS Matching, FiniteSetTheorems, TLAPS

-----------------------------------------------------------------------------
\* The strengthening.

\* What the monitor holds at each of its positions.
MonitorInv ==
  /\ toRemove \subseteq men \cup women
  /\ mon # "remove" => toRemove = {}
  /\ mon \in {"idle", "females"} => women = {}
  /\ mon = "idle" => men = {}

\* Users who have been queued, or read from the queue, and not yet removed for a match.
Pending == queue \cup toRemove \cup IF mon = "females" THEN men ELSE {}

\* Users the monitor has removed for the match that it is about to publish.
Committed == IF mon = "females" THEN {} ELSE (men \cup women) \ toRemove

One(b) == IF b THEN 1 ELSE 0

\* Each registration pays for one of: a place in the queue, a match under way, a match.
LedgerInv ==
  \A u \in Users :
    matches[u] + One(u \in Pending) + One(u \in Committed) <= regs[u] + faults

IInv == TypeOK /\ MonitorInv /\ LedgerInv

-----------------------------------------------------------------------------
\* What the monitor reads are users of the queue.

\* ZRANGE returns members of its set.
LEMMA YoungestAreMembers ==
  ASSUME NEW S, NEW T \in Youngest(S)
  PROVE  T \subseteq S
  BY DEF Youngest, kSubset

\* The women found are in their queue.
LEMMA FemalesAreQueued ==
  ASSUME NEW M, NEW T \in FemalesFor(M)
  PROVE  T \subseteq queue
<1>1. PICK r : T \in Youngest(WithinRange(M, r))
  BY DEF FemalesFor
<1>2. T \subseteq WithinRange(M, r)
  BY <1>1, YoungestAreMembers
<1> QED
  BY <1>2 DEF WithinRange

-----------------------------------------------------------------------------
\* The types are invariant.

\* The empty service is typed.
LEMMA TypeInit == Init => TypeOK
  BY ConstantsAssumption DEF Init, TypeOK, ConnPcs, MonPcs

\* Each step of a connection, the monitor, a consumer or a fault keeps the types.
LEMMA TypeNext == TypeOK /\ [Next]_vars => TypeOK'
<1> SUFFICES ASSUME TypeOK, [Next]_vars PROVE TypeOK'
  OBVIOUS
<1> USE ConstantsAssumption
    DEF TypeOK, vars, connVars, monVars, mqVars, histVars, Goto, ConnPcs, MonPcs
<1>1. ASSUME NEW c \in Conns, Connection(c) PROVE TypeOK'
  BY <1>1 DEF Connection, CheckClient, StoreClient, Enqueue, ClientCloses, TimeOut,
              ForgetClient, Dequeue
<1>2. CASE ReadMales
  <2>1. men' \subseteq Users
    BY <1>2, YoungestAreMembers DEF ReadMales
  <2> QED
    BY <1>2, <2>1 DEF ReadMales
<1>3. CASE ReadFemales
  <2>1. CASE women' \in FemalesFor(men) /\ toRemove' = men \cup women'
    <3>1. women' \subseteq Users
      BY <2>1, FemalesAreQueued
    <3> QED
      BY <1>3, <2>1, <3>1 DEF ReadFemales
  <2>2. CASE UNCHANGED <<women, toRemove>>
    BY <1>3, <2>2 DEF ReadFemales
  <2> QED
    BY <1>3, <2>1, <2>2 DEF ReadFemales
<1>4. ASSUME NEW u \in Users, RemoveMatched(u) PROVE TypeOK'
  BY <1>4 DEF RemoveMatched, Removed
<1>5. CASE PublishMatch
  BY <1>5 DEF PublishMatch, Events
<1>6. ASSUME NEW e \in matchQ, CreateRoom(e) PROVE TypeOK'
  BY <1>6 DEF CreateRoom
<1>7. ASSUME NEW e \in roomQ, NEW u \in Users, NotifySuccess(e, u) PROVE TypeOK'
  <2>1. roomQ' \subseteq Events
    BY <1>7 DEF NotifySuccess, Told, Events
  <2> QED
    BY <1>7, <2>1 DEF NotifySuccess
<1>8. ASSUME NEW e \in roomQ, NEW u \in Users, NotifyNobody(e, u) PROVE TypeOK'
  <2>1. roomQ' \subseteq Events
    BY <1>8 DEF NotifyNobody, Told, Events
  <2> QED
    BY <1>8, <2>1 DEF NotifyNobody
<1>9. CASE Faults
  BY <1>9 DEF Faults, Fault, EnqueueFails, DequeueFails, RemoveFails, Removed,
              MonitorCallFails, MatchLost, MatchCrash
<1>10. CASE UNCHANGED vars
  BY <1>10
<1> QED
  BY <1>1, <1>2, <1>3, <1>4, <1>5, <1>6, <1>7, <1>8, <1>9, <1>10
  DEF Next, Monitor, Rooms

\* Every variable keeps its type, whatever connections, monitor and faults do.
THEOREM TypeCorrect == Spec => []TypeOK
<1>1. Init => TypeOK
  BY TypeInit
<1>2. TypeOK /\ [Next]_vars => TypeOK'
  BY TypeNext
<1> QED
  BY <1>1, <1>2, PTL DEF Spec

-----------------------------------------------------------------------------
\* A queued user, and a registered connection, have an owner that cleans up.

\* QueueHasOwner is inductive: only an Enqueue adds to the queue, and the connection
\* it belongs to stays until its own Dequeue takes the user out.
LEMMA OwnerNext == TypeOK /\ QueueHasOwner /\ [Next]_vars => QueueHasOwner'
<1> SUFFICES ASSUME TypeOK, QueueHasOwner, [Next]_vars PROVE QueueHasOwner'
  OBVIOUS
<1> USE ConstantsAssumption
    DEF TypeOK, QueueHasOwner, ConnsOf, vars, connVars, monVars, mqVars, histVars, Goto
<1>1. ASSUME NEW c \in Conns, CheckClient(c) \/ StoreClient(c) \/ Enqueue(c)
      PROVE QueueHasOwner'
  BY <1>1 DEF CheckClient, StoreClient, Enqueue
<1>2. ASSUME NEW c \in Conns, ClientCloses(c) \/ TimeOut(c) \/ ForgetClient(c)
      PROVE QueueHasOwner'
  BY <1>2 DEF ClientCloses, TimeOut, ForgetClient
<1>3. ASSUME NEW c \in Conns, Dequeue(c) PROVE QueueHasOwner'
  BY <1>3 DEF Dequeue
<1>4. CASE Monitor
  BY <1>4 DEF Monitor, ReadMales, ReadFemales, RemoveMatched, Removed, PublishMatch
<1>5. CASE Rooms
  BY <1>5 DEF Rooms, CreateRoom, NotifySuccess, NotifyNobody
<1>6. CASE Faults
  BY <1>6 DEF Faults, Fault, EnqueueFails, DequeueFails, RemoveFails, MonitorCallFails,
              MatchLost, MatchCrash
<1>7. CASE UNCHANGED vars
  BY <1>7
<1> QED
  BY <1>1, <1>2, <1>3, <1>4, <1>5, <1>6, <1>7 DEF Next, Connection

\* Without a fault, a user waits in the queue only while one of his connections is
\* there to take him out of it.
THEOREM QueueIsOwned == Spec => []QueueHasOwner
<1>1. Init => QueueHasOwner
  BY DEF Init, QueueHasOwner
<1> QED
  BY <1>1, OwnerNext, TypeCorrect, PTL DEF Spec

\* ClientIsOpen is inductive too: a connection that ends deletes its user's entry,
\* whoever's it is.
LEMMA OpenNext == TypeOK /\ ClientIsOpen /\ [Next]_vars => ClientIsOpen'
<1> SUFFICES ASSUME TypeOK, ClientIsOpen, [Next]_vars PROVE ClientIsOpen'
  OBVIOUS
<1> USE ConstantsAssumption
    DEF TypeOK, ClientIsOpen, ConnsOf, vars, connVars, monVars, mqVars, histVars, Goto
<1>1. ASSUME NEW c \in Conns, CheckClient(c) \/ StoreClient(c) \/ Enqueue(c)
      PROVE ClientIsOpen'
  BY <1>1 DEF CheckClient, StoreClient, Enqueue
<1>2. ASSUME NEW c \in Conns, ClientCloses(c) \/ TimeOut(c) \/ Dequeue(c)
      PROVE ClientIsOpen'
  BY <1>2 DEF ClientCloses, TimeOut, Dequeue
<1>3. ASSUME NEW c \in Conns, ForgetClient(c) PROVE ClientIsOpen'
  BY <1>3 DEF ForgetClient
<1>4. CASE Monitor
  BY <1>4 DEF Monitor, ReadMales, ReadFemales, RemoveMatched, PublishMatch
<1>5. CASE Rooms
  BY <1>5 DEF Rooms, CreateRoom, NotifySuccess, NotifyNobody
<1>6. CASE Faults
  BY <1>6 DEF Faults, Fault, EnqueueFails, DequeueFails, RemoveFails, MonitorCallFails,
              MatchLost, MatchCrash
<1>7. CASE UNCHANGED vars
  BY <1>7
<1> QED
  BY <1>1, <1>2, <1>3, <1>4, <1>5, <1>6, <1>7 DEF Next, Connection

\* Without a fault, MatchClients never keeps a finished connection.
THEOREM ClientsAreOpen == Spec => []ClientIsOpen
<1>1. Init => ClientIsOpen
  BY DEF Init, ClientIsOpen
<1> QED
  BY <1>1, OpenNext, TypeCorrect, PTL DEF Spec

-----------------------------------------------------------------------------
\* MatchesBounded, from the monitor's ledger.

\* Each step keeps MonitorInv.
LEMMA MonitorNext == TypeOK /\ MonitorInv /\ [Next]_vars => MonitorInv'
<1> SUFFICES ASSUME TypeOK, MonitorInv, [Next]_vars PROVE MonitorInv'
  OBVIOUS
<1> USE DEF MonitorInv, vars, monVars
<1>1. ASSUME NEW c \in Conns, Connection(c) PROVE MonitorInv'
  BY <1>1 DEF Connection, CheckClient, StoreClient, Enqueue, ClientCloses, TimeOut,
              ForgetClient, Dequeue
<1>2. CASE Monitor
  BY <1>2 DEF Monitor, ReadMales, ReadFemales, RemoveMatched, Removed, PublishMatch
<1>3. CASE Rooms
  BY <1>3 DEF Rooms, CreateRoom, NotifySuccess, NotifyNobody
<1>4. CASE Faults
  BY <1>4 DEF Faults, EnqueueFails, DequeueFails, RemoveFails, Removed,
              MonitorCallFails, MatchLost, MatchCrash
<1>5. CASE UNCHANGED vars
  BY <1>5
<1> QED
  BY <1>1, <1>2, <1>3, <1>4, <1>5 DEF Next

\* The ledger stays balanced: a registration, and a fault, adds one to its right
\* side, and the monitor moves users from one column of its left side to the next.
LEMMA LedgerNext == TypeOK /\ MonitorInv /\ LedgerInv /\ [Next]_vars => LedgerInv'
<1> SUFFICES ASSUME TypeOK, MonitorInv, LedgerInv, [Next]_vars, NEW v \in Users
             PROVE  (matches[v] + One(v \in Pending) + One(v \in Committed)
                       <= regs[v] + faults)'
  BY DEF LedgerInv
<1> DEFINE Goal == (matches[v] + One(v \in Pending) + One(v \in Committed)
                      <= regs[v] + faults)'
<1>0. matches[v] + One(v \in Pending) + One(v \in Committed) <= regs[v] + faults
  BY DEF LedgerInv
<1> USE <1>0, ConstantsAssumption
    DEF TypeOK, MonitorInv, Pending, Committed, One, vars, connVars, monVars, mqVars,
        histVars
<1>1. ASSUME NEW c \in Conns, Connection(c) PROVE Goal
  BY <1>1 DEF Connection, CheckClient, StoreClient, Enqueue, ClientCloses, TimeOut,
              ForgetClient, Dequeue
<1>2. CASE ReadMales
  <2>1. men' \subseteq queue
    BY <1>2, YoungestAreMembers DEF ReadMales
  <2> QED
    BY <1>2, <2>1 DEF ReadMales
<1>3. CASE ReadFemales
  <2>1. CASE /\ women' \in FemalesFor(men)
             /\ toRemove' = men \cup women'
             /\ mon' = "remove"
             /\ UNCHANGED men
    <3>1. women' \subseteq queue
      BY <2>1, FemalesAreQueued
    <3> QED
      BY <1>3, <2>1, <3>1 DEF ReadFemales
  <2>2. CASE mon' = "idle" /\ men' = {} /\ UNCHANGED <<women, toRemove>>
    BY <1>3, <2>2 DEF ReadFemales
  <2> QED
    BY <1>3, <2>1, <2>2 DEF ReadFemales
<1>4. ASSUME NEW u \in Users, RemoveMatched(u) PROVE Goal
  BY <1>4 DEF RemoveMatched, Removed
<1>5. CASE PublishMatch
  BY <1>5 DEF PublishMatch
<1>6. CASE Rooms
  BY <1>6 DEF Rooms, CreateRoom, NotifySuccess, NotifyNobody
<1>7. CASE Faults
  BY <1>7 DEF Faults, Fault, EnqueueFails, DequeueFails, RemoveFails, Removed,
              MonitorCallFails, MatchLost, MatchCrash
<1>8. CASE UNCHANGED vars
  BY <1>8
<1> QED
  BY <1>1, <1>2, <1>3, <1>4, <1>5, <1>6, <1>7, <1>8 DEF Next, Monitor

\* The strengthened invariant holds at first.
LEMMA IInvInit == Init => IInv
  BY TypeInit DEF Init, IInv, TypeOK, MonitorInv, LedgerInv, Pending, Committed, One

\* The strengthened invariant holds: types, what the monitor holds, and the ledger.
THEOREM Invariance == Spec => []IInv
<1>1. IInv /\ [Next]_vars => IInv'
  BY TypeNext, MonitorNext, LedgerNext DEF IInv
<1> QED
  BY <1>1, IInvInit, PTL DEF Spec

\* However reads, removals and registrations interleave, a user is in at most one
\* match per registration, and one more per fault.
THEOREM MatchesAreBounded == Spec => []MatchesBounded
<1>1. IInv => MatchesBounded
  BY DEF IInv, TypeOK, LedgerInv, One, MatchesBounded
<1> QED
  BY <1>1, Invariance, PTL

-----------------------------------------------------------------------------
\* SuccessesBounded: each success was a place in an event, and each event a match.

\* The events of Q that name u, and the connections on which u was told success.
Naming(Q, u) == {e \in Q : u \in e.users}

ToldOn(u) == {c \in succeeded : Owner[c] = u}

ClientOwned == \A u \in Users : client[u] # NoConn => Owner[client[u]] = u

AnnounceInv ==
  /\ ClientOwned
  /\ IsFiniteSet(matchQ) /\ IsFiniteSet(roomQ)
  /\ \A u \in Users :
       Cardinality(ToldOn(u)) + Cardinality(Naming(matchQ, u)) + Cardinality(Naming(roomQ, u))
         <= matches[u]

\* A user is told on finitely many connections.
LEMMA ToldFinite ==
  ASSUME TypeOK, NEW u
  PROVE  IsFiniteSet(ToldOn(u)) /\ Cardinality(ToldOn(u)) \in Nat
<1>1. ToldOn(u) \in SUBSET Conns
  BY DEF ToldOn, TypeOK
<1> QED
  BY <1>1, ConstantsAssumption, FS_Subset, FS_CardinalityType

\* Finitely many events of a queue name a user.
LEMMA NamingFinite ==
  ASSUME NEW Q, IsFiniteSet(Q), NEW u
  PROVE  IsFiniteSet(Naming(Q, u)) /\ Cardinality(Naming(Q, u)) \in Nat
<1>1. Naming(Q, u) \in SUBSET Q
  BY DEF Naming
<1> QED
  BY <1>1, FS_Subset, FS_CardinalityType

\* The three counts of AnnounceInv are numbers.
LEMMA CountsType ==
  ASSUME TypeOK, AnnounceInv, NEW v \in Users
  PROVE  /\ Cardinality(ToldOn(v)) \in Nat /\ Cardinality(Naming(matchQ, v)) \in Nat
         /\ Cardinality(Naming(roomQ, v)) \in Nat /\ matches[v] \in Nat
<1>1. Cardinality(ToldOn(v)) \in Nat
  BY ToldFinite
<1>2. Cardinality(Naming(matchQ, v)) \in Nat /\ Cardinality(Naming(roomQ, v)) \in Nat
  BY NamingFinite DEF AnnounceInv
<1>3. matches[v] \in Nat
  BY DEF TypeOK
<1> QED
  BY <1>1, <1>2, <1>3

\* A set that gains at most one element.
LEMMA GrowsByOne ==
  ASSUME NEW S, NEW x, NEW T, IsFiniteSet(S), T \subseteq S \cup {x}
  PROVE  IsFiniteSet(T) /\ Cardinality(T) \in Nat /\ Cardinality(T) <= Cardinality(S) + 1
<1>1. Cardinality(S) \in Nat
  BY FS_CardinalityType
<1>2. IsFiniteSet(S \cup {x}) /\ Cardinality(S \cup {x}) <= Cardinality(S) + 1
  <2>1. /\ IsFiniteSet(S \cup {x})
        /\ Cardinality(S \cup {x}) = IF x \in S THEN Cardinality(S) ELSE Cardinality(S) + 1
    BY FS_AddElement, Zenon
  <2> QED
    BY <1>1, <2>1
<1>3. Cardinality(T) <= Cardinality(S \cup {x}) /\ IsFiniteSet(T)
  BY <1>2, FS_Subset
<1>4. Cardinality(T) \in Nat /\ Cardinality(S \cup {x}) \in Nat
  BY <1>2, <1>3, FS_CardinalityType
<1> QED
  BY <1>1, <1>2, <1>3, <1>4

\* A set that trades one element for another does not grow.
LEMMA TradesOne ==
  ASSUME NEW S, NEW x \in S, NEW y, NEW T, IsFiniteSet(S), T \subseteq (S \ {x}) \cup {y}
  PROVE  Cardinality(T) <= Cardinality(S)
<1>1. IsFiniteSet(S \ {x}) /\ Cardinality(S \ {x}) = Cardinality(S) - 1
  BY FS_RemoveElement
<1>2. Cardinality(T) <= Cardinality(S \ {x}) + 1
  BY <1>1, GrowsByOne
<1> QED
  BY <1>1, <1>2, FS_CardinalityType

\* An event that leaves a queue takes its users along.
LEMMA NamingLeft ==
  ASSUME NEW Q, IsFiniteSet(Q), NEW e \in Q, NEW u \in e.users
  PROVE  Cardinality(Naming(Q \ {e}, u)) = Cardinality(Naming(Q, u)) - 1
<1>1. Naming(Q \ {e}, u) = Naming(Q, u) \ {e} /\ e \in Naming(Q, u)
  BY DEF Naming
<1> QED
  BY <1>1, NamingFinite, FS_RemoveElement

\* An event that enters a queue adds at most one, and none for a user it does not name.
LEMMA NamingEntered ==
  ASSUME NEW Q, IsFiniteSet(Q), NEW e, NEW u
  PROVE  /\ Cardinality(Naming(Q \cup {e}, u)) <= Cardinality(Naming(Q, u)) + 1
         /\ u \notin e.users => Naming(Q \cup {e}, u) = Naming(Q, u)
<1>1. Naming(Q \cup {e}, u) \subseteq Naming(Q, u) \cup {e}
  BY DEF Naming
<1>2. u \notin e.users => Naming(Q \cup {e}, u) = Naming(Q, u)
  BY DEF Naming
<1> QED
  BY <1>1, <1>2, NamingFinite, GrowsByOne

\* A queue that loses events names nobody more often.
LEMMA NamingFewer ==
  ASSUME NEW Q, IsFiniteSet(Q), NEW R, R \subseteq Q, NEW u
  PROVE  IsFiniteSet(R) /\ Cardinality(Naming(R, u)) <= Cardinality(Naming(Q, u))
<1>1. Naming(R, u) \subseteq Naming(Q, u)
  BY DEF Naming
<1> QED
  BY <1>1, NamingFinite, FS_Subset

\* Telling u takes one event off u's, and none is added to those of another user.
LEMMA ToldNaming ==
  ASSUME NEW e \in roomQ, NEW u \in e.users, Told(e, u), IsFiniteSet(roomQ), NEW v
  PROVE  /\ IsFiniteSet(roomQ')
         /\ Cardinality(Naming(roomQ', v)) <= Cardinality(Naming(roomQ, v))
         /\ v = u => Cardinality(Naming(roomQ', v)) <= Cardinality(Naming(roomQ, v)) - 1
<1> DEFINE d == [id |-> e.id, users |-> e.users \ {u}]
<1>1. roomQ' \subseteq (roomQ \ {e}) \cup {d}
  BY DEF Told
<1>2. IsFiniteSet(roomQ')
  <2>1. IsFiniteSet(roomQ \ {e})
    BY FS_RemoveElement
  <2>2. IsFiniteSet((roomQ \ {e}) \cup {d})
    BY <2>1, FS_AddElement
  <2> QED
    BY <1>1, <2>2, FS_Subset
<1>3. IsFiniteSet(Naming(roomQ, v))
  BY NamingFinite
<1>4. CASE v \in e.users /\ v # u
  <2>1. e \in Naming(roomQ, v)
    BY <1>4 DEF Naming
  <2>2. Naming(roomQ', v) \subseteq (Naming(roomQ, v) \ {e}) \cup {d}
    BY <1>1 DEF Naming
  <2> HIDE DEF d
  <2>3. Cardinality(Naming(roomQ', v)) <= Cardinality(Naming(roomQ, v))
    BY <1>3, <2>1, <2>2, TradesOne
  <2> QED
    BY <1>2, <1>4, <2>3
<1>5. CASE v \notin e.users
  <2>1. Naming(roomQ', v) \subseteq Naming(roomQ, v)
    BY <1>1, <1>5 DEF Naming
  <2> QED
    BY <1>2, <1>3, <1>5, <2>1, FS_Subset
<1>6. CASE v = u
  <2>1. Naming(roomQ', v) \subseteq Naming(roomQ \ {e}, v)
    BY <1>1, <1>6 DEF Naming
  <2>2. Cardinality(Naming(roomQ \ {e}, v)) = Cardinality(Naming(roomQ, v)) - 1
    BY <1>6, NamingLeft
  <2>3. Naming(roomQ \ {e}, v) \subseteq Naming(roomQ, v)
    BY DEF Naming
  <2>4. IsFiniteSet(Naming(roomQ \ {e}, v))
    BY <1>3, <2>3, FS_Subset
  <2>5. Cardinality(Naming(roomQ', v)) <= Cardinality(Naming(roomQ \ {e}, v))
    BY <2>1, <2>4, FS_Subset
  <2>6. Cardinality(Naming(roomQ, v)) \in Nat /\ Cardinality(Naming(roomQ', v)) \in Nat
    BY <1>2, NamingFinite
  <2> QED
    BY <1>2, <2>2, <2>5, <2>6
<1> QED
  BY <1>4, <1>5, <1>6

\* Each step keeps ClientOwned: a connection is stored for its owner only.
LEMMA OwnedNext == TypeOK /\ ClientOwned /\ [Next]_vars => ClientOwned'
<1> SUFFICES ASSUME TypeOK, ClientOwned, [Next]_vars PROVE ClientOwned'
  OBVIOUS
<1> USE ConstantsAssumption DEF TypeOK, ClientOwned, vars, connVars
<1>1. ASSUME NEW c \in Conns, Connection(c) PROVE ClientOwned'
  BY <1>1 DEF Connection, CheckClient, StoreClient, Enqueue, ClientCloses, TimeOut,
              ForgetClient, Dequeue
<1>2. CASE Monitor
  BY <1>2 DEF Monitor, ReadMales, ReadFemales, RemoveMatched, PublishMatch
<1>3. CASE Rooms
  BY <1>3 DEF Rooms, CreateRoom, NotifySuccess, NotifyNobody
<1>4. CASE Faults
  BY <1>4 DEF Faults, EnqueueFails, DequeueFails, RemoveFails, MonitorCallFails,
              MatchLost, MatchCrash
<1>5. CASE UNCHANGED vars
  BY <1>5
<1> QED
  BY <1>1, <1>2, <1>3, <1>4, <1>5 DEF Next

\* Each step keeps AnnounceInv: a match becomes an event, and its event at most one success.
LEMMA AnnounceNext == TypeOK /\ AnnounceInv /\ [Next]_vars => AnnounceInv'
<1> SUFFICES ASSUME TypeOK, AnnounceInv, [Next]_vars PROVE AnnounceInv'
  OBVIOUS
<1>0. ClientOwned'
  BY OwnedNext DEF AnnounceInv
<1> USE <1>0 DEF AnnounceInv
<1>1. ASSUME UNCHANGED <<mqVars, matches, succeeded>> PROVE AnnounceInv'
  BY <1>1 DEF mqVars, ToldOn
<1>2. CASE PublishMatch
  <2> DEFINE e == [id |-> created, users |-> men \cup women]
  <2>1. matchQ' = matchQ \cup {e} /\ UNCHANGED <<roomQ, succeeded>>
    BY <1>2 DEF PublishMatch
  <2>2. IsFiniteSet(matchQ') /\ IsFiniteSet(roomQ')
    BY <2>1, FS_AddElement
  <2>3. ASSUME NEW u \in Users
        PROVE  (Cardinality(ToldOn(u)) + Cardinality(Naming(matchQ, u))
                  + Cardinality(Naming(roomQ, u)) <= matches[u])'
    <3>1. matches'[u] = IF u \in e.users THEN matches[u] + 1 ELSE matches[u]
      BY <1>2 DEF PublishMatch
    <3>2. ToldOn(u)' = ToldOn(u)
      BY <2>1 DEF ToldOn
    <3> HIDE DEF e
    <3>3. /\ Cardinality(Naming(matchQ', u)) <= Cardinality(Naming(matchQ, u)) + 1
          /\ u \notin e.users => Naming(matchQ', u) = Naming(matchQ, u)
      BY <2>1, NamingEntered
    <3> QED
      BY <2>1, <2>2, <3>1, <3>2, <3>3, NamingFinite, ToldFinite DEF TypeOK
  <2> QED
    BY <2>2, <2>3
<1>3. ASSUME NEW e \in matchQ, CreateRoom(e) PROVE AnnounceInv'
  <2>1. matchQ' = matchQ \ {e} /\ roomQ' = roomQ \cup {e} /\ UNCHANGED <<matches, succeeded>>
    BY <1>3 DEF CreateRoom, histVars
  <2>2. IsFiniteSet(matchQ') /\ IsFiniteSet(roomQ')
    BY <2>1, FS_AddElement, FS_RemoveElement
  <2>3. ASSUME NEW u \in Users
        PROVE  (Cardinality(ToldOn(u)) + Cardinality(Naming(matchQ, u))
                  + Cardinality(Naming(roomQ, u)) <= matches[u])'
    <3>1. ToldOn(u)' = ToldOn(u) /\ matches' = matches
      BY <2>1 DEF ToldOn
    <3>2. /\ Cardinality(Naming(roomQ', u)) <= Cardinality(Naming(roomQ, u)) + 1
          /\ u \notin e.users => Naming(roomQ', u) = Naming(roomQ, u)
      BY <2>1, NamingEntered
    <3>3. /\ u \in e.users => Cardinality(Naming(matchQ', u)) = Cardinality(Naming(matchQ, u)) - 1
          /\ Cardinality(Naming(matchQ', u)) <= Cardinality(Naming(matchQ, u))
      BY <2>1, NamingLeft, NamingFewer
    <3> QED
      BY <2>2, <3>1, <3>2, <3>3, NamingFinite, ToldFinite DEF TypeOK
  <2> QED
    BY <2>2, <2>3
<1>4. ASSUME NEW e \in roomQ, NEW u \in Users, NotifySuccess(e, u) PROVE AnnounceInv'
  <2>1. Told(e, u) /\ u \in e.users /\ UNCHANGED <<matchQ, matches>>
        /\ succeeded' = succeeded \cup {client[u]}
    BY <1>4 DEF NotifySuccess
  <2>2. IsFiniteSet(matchQ') /\ IsFiniteSet(roomQ')
    BY <2>1, ToldNaming
  <2>3. ASSUME NEW v \in Users
        PROVE  (Cardinality(ToldOn(v)) + Cardinality(Naming(matchQ, v))
                  + Cardinality(Naming(roomQ, v)) <= matches[v])'
    <3>a. /\ Cardinality(Naming(roomQ', v)) <= Cardinality(Naming(roomQ, v))
          /\ v = u => Cardinality(Naming(roomQ', v)) <= Cardinality(Naming(roomQ, v)) - 1
      BY <2>1, ToldNaming
    <3>b. matchQ' = matchQ /\ matches' = matches
      BY <2>1
    <3>c. Cardinality(Naming(roomQ', v)) \in Nat
      BY <2>2, NamingFinite
    <3>d. /\ Cardinality(ToldOn(v)) \in Nat /\ Cardinality(Naming(matchQ, v)) \in Nat
          /\ Cardinality(Naming(roomQ, v)) \in Nat /\ matches[v] \in Nat
      BY CountsType
    <3>e. Cardinality(ToldOn(v)) + Cardinality(Naming(matchQ, v))
            + Cardinality(Naming(roomQ, v)) <= matches[v]
      OBVIOUS
    <3>1. CASE v = u
      <4>1. ToldOn(v)' \subseteq ToldOn(v) \cup {client[u]}
        BY <2>1 DEF ToldOn
      <4>2. Cardinality(ToldOn(v)') <= Cardinality(ToldOn(v)) + 1
            /\ Cardinality(ToldOn(v)') \in Nat
        BY <4>1, GrowsByOne, ToldFinite
      <4> QED
        BY <3>a, <3>b, <3>c, <3>d, <3>e, <3>1, <4>2
    <3>2. CASE v # u
      <4>1. Owner[client[u]] # v
        BY <1>4, <3>2 DEF NotifySuccess, ClientOwned
      <4>2. ToldOn(v)' = ToldOn(v)
        BY <2>1, <4>1 DEF ToldOn
      <4> QED
        BY <3>a, <3>b, <3>c, <3>d, <3>e, <4>2
    <3> QED
      BY <3>1, <3>2
  <2> QED
    BY <2>2, <2>3
<1>5. ASSUME NEW e \in roomQ, NEW u \in Users, NotifyNobody(e, u) PROVE AnnounceInv'
  <2>1. Told(e, u) /\ u \in e.users /\ UNCHANGED <<matchQ, matches, succeeded>>
    BY <1>5 DEF NotifyNobody, histVars
  <2>2. IsFiniteSet(matchQ') /\ IsFiniteSet(roomQ')
    BY <2>1, ToldNaming
  <2>3. ASSUME NEW v \in Users
        PROVE  (Cardinality(ToldOn(v)) + Cardinality(Naming(matchQ, v))
                  + Cardinality(Naming(roomQ, v)) <= matches[v])'
    <3>1. ToldOn(v)' = ToldOn(v)
      BY <2>1 DEF ToldOn
    <3> QED
      BY <2>1, <2>2, <3>1, ToldNaming, NamingFinite, ToldFinite DEF TypeOK
  <2> QED
    BY <2>2, <2>3
<1>6. ASSUME matchQ' \subseteq matchQ, roomQ' \subseteq roomQ, UNCHANGED <<matches, succeeded>>
      PROVE  AnnounceInv'
  <2>1. IsFiniteSet(matchQ') /\ IsFiniteSet(roomQ')
    BY <1>6, FS_Subset
  <2>2. ASSUME NEW v \in Users
        PROVE  (Cardinality(ToldOn(v)) + Cardinality(Naming(matchQ, v))
                  + Cardinality(Naming(roomQ, v)) <= matches[v])'
    <3>1. ToldOn(v)' = ToldOn(v)
      BY <1>6 DEF ToldOn
    <3>2. /\ Cardinality(Naming(matchQ', v)) <= Cardinality(Naming(matchQ, v))
          /\ Cardinality(Naming(roomQ', v)) <= Cardinality(Naming(roomQ, v))
      BY <1>6, NamingFewer
    <3> QED
      BY <1>6, <2>1, <3>1, <3>2, NamingFinite, ToldFinite DEF TypeOK
  <2> QED
    BY <2>1, <2>2
<1>7. ASSUME NEW c \in Conns, Connection(c) PROVE AnnounceInv'
  BY <1>1, <1>7 DEF Connection, CheckClient, StoreClient, Enqueue, ClientCloses, TimeOut,
                    ForgetClient, Dequeue, histVars
<1>8. CASE Monitor
  BY <1>1, <1>2, <1>8 DEF Monitor, ReadMales, ReadFemales, RemoveMatched, histVars
<1>9. CASE Faults
  BY <1>1, <1>6, <1>9 DEF Faults, EnqueueFails, DequeueFails, RemoveFails, MonitorCallFails,
                          MatchLost, MatchCrash, histVars, mqVars
<1>10. CASE UNCHANGED vars
  BY <1>1, <1>10 DEF vars, histVars
<1> QED
  BY <1>3, <1>4, <1>5, <1>7, <1>8, <1>9, <1>10 DEF Next, Rooms

\* At first nothing is announced and nobody told.
LEMMA AnnounceInit == Init => AnnounceInv
<1> SUFFICES ASSUME Init PROVE AnnounceInv
  OBVIOUS
<1>1. ASSUME NEW u \in Users
      PROVE  ToldOn(u) = {} /\ Naming(matchQ, u) = {} /\ Naming(roomQ, u) = {}
  BY DEF Init, ToldOn, Naming
<1> QED
  BY <1>1, FS_EmptySet DEF Init, AnnounceInv, ClientOwned

\* A user is told success at most once for each match published for him, and each
\* time on a connection of his own.
THEOREM SuccessesAreBounded == Spec => []SuccessesBounded
<1>1. TypeOK /\ AnnounceInv => SuccessesBounded
  <2> SUFFICES ASSUME TypeOK, AnnounceInv, NEW u \in Users
               PROVE  Cardinality(ToldOn(u)) <= matches[u]
    BY DEF SuccessesBounded, ToldOn
  <2> QED
    BY ToldFinite, NamingFinite DEF AnnounceInv, TypeOK
<1>2. TypeOK /\ TypeOK' /\ AnnounceInv /\ [Next]_vars => AnnounceInv'
  BY AnnounceNext
<1> QED
  BY <1>1, <1>2, AnnounceInit, TypeCorrect, PTL DEF Spec

-----------------------------------------------------------------------------
\* The matching of Matchmaking.

\* What the monitor holds has the shape of a match, as far as it has been read.
PartyInv ==
  /\ mon # "idle" => men \subseteq Males /\ Cardinality(men) = CoupleCount
  /\ mon \in {"remove", "publish"} =>
       /\ women \subseteq Users \ Males /\ Cardinality(women) = CoupleCount
       /\ \E r \in AgeRanges : \A w \in women : Fits(w, men, r)

\* A match has one event, which is on its way to the chat service or from there.
NewsInv ==
  /\ \A e \in matchQ \cup roomQ : e.id < created
  /\ \A e, f \in matchQ \cup roomQ : e.id = f.id => e = f
  /\ matchQ \cap roomQ = {}

\* The men and the women found are as many as a match needs.
LEMMA YoungestAreEnough ==
  ASSUME NEW S, NEW T \in Youngest(S)
  PROVE  Cardinality(T) = CoupleCount
  BY DEF Youngest, kSubset

\* The women found are within one of the ranges.
LEMMA FemalesFit ==
  ASSUME NEW M, NEW T \in FemalesFor(M)
  PROVE  /\ T \subseteq queue \ Males /\ Cardinality(T) = CoupleCount
         /\ \E r \in AgeRanges : \A w \in T : Fits(w, M, r)
<1> DEFINE enough == {r \in AgeRanges : Cardinality(WithinRange(M, r)) >= CoupleCount}
<1>1. enough # {} /\ T \in Youngest(WithinRange(M, Min(enough)))
  BY DEF FemalesFor
<1>2. Min(enough) \in enough
  <2>1. enough \subseteq {5, 10, 15} /\ enough # {}
    BY <1>1 DEF AgeRanges
  <2> HIDE DEF enough
  <2>2. \E x \in enough : \A y \in enough : x <= y
    <3>1. CASE 5 \in enough
      BY <2>1, <3>1
    <3>2. CASE 5 \notin enough /\ 10 \in enough
      BY <2>1, <3>2
    <3>3. CASE 5 \notin enough /\ 10 \notin enough
      <4>1. \A y \in enough : y = 15
        BY <2>1, <3>3
      <4>2. 15 \in enough
        BY <2>1, <4>1
      <4> QED
        BY <4>1, <4>2
    <3> QED
      BY <3>1, <3>2, <3>3
  <2> QED
    BY <2>2 DEF Min
<1>3. T \subseteq WithinRange(M, Min(enough)) /\ Cardinality(T) = CoupleCount
  BY <1>1, YoungestAreMembers, YoungestAreEnough
<1>4. Min(enough) \in AgeRanges
  BY <1>2
<1> HIDE DEF enough
<1> QED
  BY <1>3, <1>4 DEF WithinRange

\* Each step keeps PartyInv.
LEMMA PartyNext == TypeOK /\ PartyInv /\ [Next]_vars => PartyInv'
<1> SUFFICES ASSUME TypeOK, PartyInv, [Next]_vars PROVE PartyInv'
  OBVIOUS
<1> USE DEF PartyInv, vars, monVars
<1>1. CASE UNCHANGED <<mon, men, women>>
  BY <1>1
<1>2. ASSUME NEW c \in Conns, Connection(c) PROVE PartyInv'
  BY <1>1, <1>2 DEF Connection, CheckClient, StoreClient, Enqueue, ClientCloses, TimeOut,
                    ForgetClient, Dequeue
<1>3. CASE ReadMales
  <2>1. men' \subseteq queue \cap Males /\ Cardinality(men') = CoupleCount /\ mon' = "females"
    BY <1>3, YoungestAreMembers, YoungestAreEnough DEF ReadMales
  <2> QED
    BY <2>1
<1>4. CASE ReadFemales
  <2>1. CASE women' \in FemalesFor(men) /\ mon' = "remove" /\ UNCHANGED men
    <3>1. /\ women' \subseteq queue \ Males /\ Cardinality(women') = CoupleCount
          /\ \E r \in AgeRanges : \A w \in women' : Fits(w, men, r)
      BY <2>1, FemalesFit
    <3>2. men \subseteq Males /\ Cardinality(men) = CoupleCount
      BY <1>4 DEF ReadFemales
    <3> QED
      BY <2>1, <3>1, <3>2 DEF TypeOK
  <2>2. CASE mon' = "idle"
    BY <2>2
  <2> QED
    BY <1>4, <2>1, <2>2 DEF ReadFemales
<1>5. ASSUME NEW u \in Users, Removed(u) PROVE PartyInv'
  <2>1. mon = "remove" /\ mon' \in {"remove", "publish"} /\ UNCHANGED <<men, women>>
    BY <1>5 DEF Removed
  <2> QED
    BY <2>1
<1>6. CASE PublishMatch \/ MonitorCallFails \/ MatchCrash
  BY <1>6 DEF PublishMatch, MonitorCallFails, MatchCrash
<1>7. CASE Rooms
  BY <1>1, <1>7 DEF Rooms, CreateRoom, NotifySuccess, NotifyNobody
<1>8. CASE Faults
  BY <1>1, <1>5, <1>6, <1>8 DEF Faults, EnqueueFails, DequeueFails, RemoveFails, MatchLost
<1>9. CASE UNCHANGED vars
  BY <1>1, <1>9
<1> QED
  BY <1>2, <1>3, <1>4, <1>5, <1>6, <1>7, <1>8, <1>9 DEF Next, Monitor, RemoveMatched

\* What telling a user does to the events.
LEMMA ToldNews ==
  ASSUME NEW e \in roomQ, NEW u, Told(e, u)
  PROVE  roomQ' = (roomQ \ {e})
                    \cup {x \in {[id |-> e.id, users |-> e.users \ {u}]} : x.users # {}}
<1> DEFINE x == [id |-> e.id, users |-> e.users \ {u}]
<1>1. x.users = e.users \ {u}
  OBVIOUS
<1>2. CASE e.users \ {u} = {}
  BY <1>1, <1>2 DEF Told
<1>3. CASE e.users \ {u} # {}
  BY <1>1, <1>3 DEF Told
<1> QED
  BY <1>2, <1>3

\* Each step keeps NewsInv: events are numbered, and move from one queue to the other.
LEMMA NewsNext == TypeOK /\ NewsInv /\ [Next]_vars => NewsInv'
<1> SUFFICES ASSUME TypeOK, NewsInv, [Next]_vars PROVE NewsInv'
  OBVIOUS
<1> USE DEF NewsInv, vars, mqVars, histVars
<1>1. CASE matchQ' \subseteq matchQ /\ roomQ' \subseteq roomQ /\ UNCHANGED created
  BY <1>1
<1>2. ASSUME NEW c \in Conns, Connection(c) PROVE NewsInv'
  BY <1>1, <1>2 DEF Connection, CheckClient, StoreClient, Enqueue, ClientCloses, TimeOut,
                    ForgetClient, Dequeue
<1>3. CASE PublishMatch
  <2> DEFINE e == [id |-> created, users |-> men \cup women]
  <2>1. e.id = created /\ matchQ' = matchQ \cup {e} /\ created' = created + 1 /\ roomQ' = roomQ
    BY <1>3 DEF PublishMatch
  <2>2. \A f \in matchQ \cup roomQ : f.id \in Nat /\ f.id < created /\ created \in Nat
    BY DEF TypeOK, Events
  <2> HIDE DEF e
  <2> QED
    BY <2>1, <2>2 DEF TypeOK
<1>4. ASSUME NEW e \in matchQ, CreateRoom(e) PROVE NewsInv'
  BY <1>4 DEF CreateRoom
<1>5. ASSUME NEW e \in roomQ, NEW u \in Users, Told(e, u), UNCHANGED <<matchQ, created>>
      PROVE  NewsInv'
  <2> DEFINE left == {x \in {[id |-> e.id, users |-> e.users \ {u}]} : x.users # {}}
  <2>1. roomQ' = (roomQ \ {e}) \cup left
    BY <1>5, ToldNews
  <2> DEFINE rest == [id |-> e.id, users |-> e.users \ {u}]
  <2>2. rest.id = e.id
    OBVIOUS
  <2>3. \A x \in left : x = rest
    OBVIOUS
  <2> HIDE DEF left, rest
  <2> QED
    BY <1>5, <2>1, <2>2, <2>3
<1>6. CASE Rooms
  BY <1>4, <1>5, <1>6 DEF Rooms, NotifySuccess, NotifyNobody
<1>7. CASE Faults
  BY <1>1, <1>7 DEF Faults, EnqueueFails, DequeueFails, RemoveFails, MonitorCallFails,
                    MatchLost, MatchCrash
<1>8. CASE ReadMales \/ ReadFemales \/ (\E u \in Users : RemoveMatched(u)) \/ UNCHANGED vars
  BY <1>1, <1>8 DEF ReadMales, ReadFemales, RemoveMatched
<1> QED
  BY <1>2, <1>3, <1>6, <1>7, <1>8 DEF Next, Monitor

MatchesInv == IInv /\ PartyInv /\ NewsInv /\ ClientOwned

\* The match that is published is fair, and each of its members has paid for it.
LEMMA PublishedIsFair ==
  ASSUME IInv, PartyInv, mon = "publish"
  PROVE  /\ men \cup women \in FairParties
         /\ \A u \in men \cup women : matches[u] < regs[u] + faults
<1> DEFINE p == men \cup women
<1>1. p \cap Males = men /\ p \ Males = women
  BY DEF PartyInv
<1>2. p \in SUBSET Users
  BY DEF IInv, TypeOK
<1>3. p \in FairParties
  BY <1>1, <1>2 DEF PartyInv, FairParties
<1>4. ASSUME NEW u \in p PROVE matches[u] < regs[u] + faults
  <2>1. toRemove = {} /\ u \in Committed
    BY DEF IInv, MonitorInv, Committed
  <2>2. matches[u] \in Nat /\ regs[u] \in Nat /\ faults \in Nat /\ u \in Users
    BY <1>2 DEF IInv, TypeOK
  <2>3. matches[u] + One(u \in Pending) + 1 <= regs[u] + faults
    BY <2>1, <2>2 DEF IInv, LedgerInv, One
  <2> QED
    BY <2>2, <2>3 DEF One
<1> QED
  BY <1>3, <1>4

\* Every step of the connections, the monitor, the two services or a fault is one of
\* Matchmaking, or none.
LEMMA MatchmakingStep == MatchesInv /\ [Next]_vars => [Matches!Next]_(Matches!vars)
<1> SUFFICES ASSUME MatchesInv, [Next]_vars PROVE [Matches!Next]_(Matches!vars)
  OBVIOUS
<1> USE DEF MatchesInv, vars, mqVars, histVars
<1>1. TypeOK
  BY DEF IInv
<1>2. CASE UNCHANGED <<mqVars, histVars, faults>>
  BY <1>2 DEF Matches!vars
<1>3. ASSUME NEW c \in Conns, Enqueue(c) PROVE [Matches!Next]_(Matches!vars)
  <2>1. Matches!Register(Owner[c])
    BY <1>3 DEF Enqueue, Matches!Register
  <2> QED
    BY <2>1, ConstantsAssumption DEF Matches!Next
<1>4. ASSUME NEW c \in Conns, Connection(c) PROVE [Matches!Next]_(Matches!vars)
  BY <1>2, <1>3, <1>4 DEF Connection, CheckClient, StoreClient, ClientCloses, TimeOut,
                          ForgetClient, Dequeue
<1>5. CASE PublishMatch
  <2> DEFINE p == men \cup women
  <2>1. p \in FairParties /\ \A u \in p : matches[u] < regs[u] + faults
    BY <1>5, PublishedIsFair DEF PublishMatch
  <2>2. /\ matches' = [u \in Users |-> IF u \in p THEN matches[u] + 1 ELSE matches[u]]
        /\ (matchQ \cup roomQ)' = (matchQ \cup roomQ) \cup {[id |-> created, users |-> p]}
        /\ created' = created + 1
        /\ UNCHANGED <<regs, faults, succeeded>>
    BY <1>5 DEF PublishMatch
  <2> HIDE DEF p
  <2>3. Matches!Match
    BY <2>1, <2>2 DEF Matches!Match
  <2> QED
    BY <2>3 DEF Matches!Next
<1>6. ASSUME NEW e \in matchQ, CreateRoom(e) PROVE [Matches!Next]_(Matches!vars)
  <2>1. (matchQ \cup roomQ)' = matchQ \cup roomQ
    BY <1>6 DEF CreateRoom
  <2> QED
    BY <1>6, <2>1 DEF CreateRoom, Matches!vars
<1>7. ASSUME NEW e \in roomQ, NEW u \in Users, u \in e.users, Told(e, u),
             \/ UNCHANGED succeeded
             \/ \E c \in Conns : Owner[c] = u /\ succeeded' = succeeded \cup {c},
             UNCHANGED <<matchQ, regs, matches, created, faults>>
      PROVE  [Matches!Next]_(Matches!vars)
  <2> DEFINE left == {x \in {[id |-> e.id, users |-> e.users \ {u}]} : x.users # {}}
  <2>1. roomQ' = (roomQ \ {e}) \cup left
    BY <1>1, <1>7, ToldNews
  <2> HIDE DEF left
  <2>2. (matchQ \cup roomQ)' = ((matchQ \cup roomQ) \ {e}) \cup left
    BY <1>7, <2>1 DEF NewsInv
  <2>3. Matches!Tell(e, u)
    BY <1>7, <2>2 DEF Matches!Tell, left
  <2> QED
    BY <2>3 DEF Matches!Next
<1>8. ASSUME NEW e \in roomQ, NEW u \in Users, NotifySuccess(e, u)
      PROVE  [Matches!Next]_(Matches!vars)
  <2>1. client[u] \in Conns /\ Owner[client[u]] = u
    BY <1>1, <1>8 DEF NotifySuccess, ClientOwned, TypeOK
  <2> QED
    BY <1>7, <1>8, <2>1 DEF NotifySuccess
<1>9. ASSUME NEW e \in roomQ, NEW u \in Users, NotifyNobody(e, u)
      PROVE  [Matches!Next]_(Matches!vars)
  BY <1>7, <1>9 DEF NotifyNobody
<1>10. CASE Faults
  <2>1. /\ faults' = faults + 1 /\ UNCHANGED histVars
        /\ matchQ' \subseteq matchQ /\ roomQ' \subseteq roomQ
    BY <1>10 DEF Faults, Fault, EnqueueFails, DequeueFails, RemoveFails, MonitorCallFails,
                 MatchLost, MatchCrash
  <2>2. Matches!Fail
    BY <2>1 DEF Matches!Fail
  <2> QED
    BY <2>2 DEF Matches!Next
<1>11. CASE ReadMales \/ ReadFemales \/ (\E u \in Users : RemoveMatched(u)) \/ UNCHANGED vars
  BY <1>2, <1>11 DEF ReadMales, ReadFemales, RemoveMatched
<1> QED
  BY <1>4, <1>5, <1>6, <1>8, <1>9, <1>10, <1>11 DEF Next, Monitor, Rooms

\* For all users, ages and numbers of couples, and whatever fails, the queues, the monitor
\* and the two services are the matching of Matchmaking.
THEOREM MatchingIsMatchmaking == Spec => ImplementsMatchmaking
<1>1. Init => Matches!Init
  BY DEF Init, Matches!Init
<1>2. Init => PartyInv /\ NewsInv /\ ClientOwned
  BY DEF Init, PartyInv, NewsInv, ClientOwned
<1>3. IInv /\ IInv' /\ PartyInv /\ NewsInv /\ ClientOwned /\ [Next]_vars
        => PartyInv' /\ NewsInv' /\ ClientOwned'
  BY PartyNext, NewsNext, OwnedNext DEF IInv
<1>4. IInv /\ PartyInv /\ NewsInv /\ ClientOwned /\ [Next]_vars => [Matches!Next]_(Matches!vars)
  BY MatchmakingStep DEF MatchesInv
<1> QED
  BY <1>1, <1>2, <1>3, <1>4, Invariance, PTL DEF Spec, ImplementsMatchmaking, Matches!Spec
=============================================================================
