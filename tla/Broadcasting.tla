---------------------------- MODULE Broadcasting ----------------------------
(***************************************************************************)
(* What the game service promises of its sessions and of the messages into *)
(* them, without a map of clients, goroutines, pings and channels' loads   *)
(* and closings: a session begins, is open, seals at most one box, of its  *)
(* own user, and is gone; it does not end while a message of its own is    *)
(* being sent.  A broadcast puts at most one copy into a box of each user  *)
(* who was present when it started, in nobody else's, and never in a       *)
(* sealed one.  The process dies only of a fault, or of a broadcast that   *)
(* is on its way to somebody with a sealed box.                            *)
(***************************************************************************)
EXTENDS Naturals

CONSTANTS
  Users,
  Sockets,  \* each is opened once
  Owner,    \* who opens it
  Others,   \* senders that have no socket
  Capacity  \* of a socket's box

VARIABLES
  phase,   \* how far each session has come
  present, \* users who are taken for present
  mail,    \* messages in each box
  sealed,  \* boxes that nothing can be put into
  pending, \* whom each sender's broadcast may still reach
  seals,   \* boxes sealed so far
  deaths,  \* how often the process died of a broadcast
  slack    \* faults so far

vars == <<phase, present, mail, sealed, pending, seals, deaths, slack>>

Senders == Sockets \cup Others

TypeOK ==
  /\ phase \in [Sockets -> {"new", "open", "ending", "leaving", "gone"}]
  /\ present \subseteq Users
  /\ mail \in [Sockets -> 0..Capacity]
  /\ sealed \subseteq Sockets
  /\ pending \in [Senders -> SUBSET Users]
  /\ seals \in Nat
  /\ deaths \in Nat
  /\ slack \in Nat

Init ==
  /\ phase = [c \in Sockets |-> "new"]
  /\ present = {}
  /\ mail = [c \in Sockets |-> 0]
  /\ sealed = {}
  /\ pending = [s \in Senders |-> {}]
  /\ seals = 0
  /\ deaths = 0
  /\ slack = 0

-----------------------------------------------------------------------------
\* Sessions.

Move(c, from, to) ==
  /\ phase[c] = from
  /\ phase' = [phase EXCEPT ![c] = to]
  /\ UNCHANGED <<mail, pending, deaths>>

Begin(c) == Move(c, "new", "open") /\ UNCHANGED <<present, sealed, seals, slack>>

Enter(c) ==
  /\ phase[c] = "open"
  /\ present' = present \cup {Owner[c]}
  /\ UNCHANGED <<phase, mail, sealed, pending, seals, deaths, slack>>

\* It may find no box to seal.
Finish(c) ==
  /\ pending[c] = {}
  /\ Move(c, "open", "ending") \/ Move(c, "open", "leaving")
  /\ UNCHANGED <<present, sealed, seals, slack>>

Seal(c, d) ==
  /\ Move(c, "ending", "leaving")
  /\ Owner[d] = Owner[c] /\ phase[d] # "new" /\ d \notin sealed
  /\ sealed' = sealed \cup {d}
  /\ seals' = seals + 1
  /\ UNCHANGED <<present, slack>>

\* The box is sealed already.
Trip(c) ==
  /\ \E d \in sealed : Owner[d] = Owner[c]
  /\ Move(c, "ending", "gone")
  /\ UNCHANGED <<present, sealed, seals, slack>>

Leave(c) ==
  /\ Move(c, "leaving", "gone")
  /\ present' = present \ {Owner[c]}
  /\ UNCHANGED <<sealed, seals, slack>>

Fail(c) ==
  /\ pending[c] = {}
  /\ Move(c, "open", "gone") \/ Move(c, "leaving", "gone")
  /\ slack' = slack + 1
  /\ UNCHANGED <<present, sealed, seals>>

-----------------------------------------------------------------------------
\* Messages.

Start(s) ==
  /\ pending[s] = {}
  /\ s \in Sockets => phase[s] = "open"
  /\ pending' = [pending EXCEPT ![s] = present]
  /\ UNCHANGED <<phase, present, mail, sealed, seals, deaths, slack>>

Skip(s, u) ==
  /\ u \in pending[s]
  /\ pending' = [pending EXCEPT ![s] = @ \ {u}]
  /\ UNCHANGED <<phase, present, mail, sealed, seals, deaths, slack>>

Deliver(s, c) ==
  /\ Owner[c] \in pending[s] /\ phase[c] # "new"
  /\ c \notin sealed /\ mail[c] < Capacity
  /\ mail' = [mail EXCEPT ![c] = @ + 1]
  /\ pending' = [pending EXCEPT ![s] = @ \ {Owner[c]}]
  /\ UNCHANGED <<phase, present, sealed, seals, deaths, slack>>

Take(c) ==
  /\ mail[c] > 0
  /\ mail' = [mail EXCEPT ![c] = @ - 1]
  /\ UNCHANGED <<phase, present, sealed, pending, seals, deaths, slack>>

-----------------------------------------------------------------------------
\* The end of the process.  Who is taken for present stays so.

Collapse ==
  /\ phase' = [c \in Sockets |-> IF phase[c] = "new" THEN "new" ELSE "gone"]
  /\ mail' = [c \in Sockets |-> 0]
  /\ sealed' = {}
  /\ pending' = [s \in Senders |-> {}]
  /\ UNCHANGED <<present, seals>>

Die ==
  /\ \E s \in Senders, c \in sealed : Owner[c] \in pending[s]
  /\ Collapse
  /\ deaths' = deaths + 1
  /\ UNCHANGED slack

Restart ==
  /\ Collapse
  /\ slack' = slack + 1
  /\ UNCHANGED deaths

Next ==
  \/ \E c \in Sockets :
       \/ Begin(c) \/ Enter(c) \/ Finish(c) \/ Trip(c) \/ Leave(c) \/ Fail(c) \/ Take(c)
       \/ \E d \in Sockets : Seal(c, d)
  \/ \E s \in Senders :
       \/ Start(s)
       \/ \E u \in Users : Skip(s, u)
       \/ \E c \in Sockets : Deliver(s, c)
  \/ Die \/ Restart

Spec == Init /\ [][Next]_vars
=============================================================================
