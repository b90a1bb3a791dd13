---------------------------- MODULE ChoiceRound ----------------------------
(***************************************************************************)
(* What the services together promise about one game room, without Redis,  *)
(* queues or goroutines: the room moves from its chat hour to the choice   *)
(* phase and then is closed, and whatever the match history records as the *)
(* final match has been shown to the room before.                          *)
(***************************************************************************)
CONSTANTS
  Outcomes,   \* the final matches a room can have
  Undecided   \* the outcome in which no final match is recorded

VARIABLES
  phase,      \* "chat", "choosing" or "closed"
  shown,      \* the outcomes broadcast to the room
  recorded    \* the outcome in the match history

vars == <<phase, shown, recorded>>

TypeOK ==
  /\ phase \in {"chat", "choosing", "closed"}
  /\ shown \subseteq Outcomes
  /\ recorded \in Outcomes

Init ==
  /\ phase = "chat"
  /\ shown = {}
  /\ recorded = Undecided

Start ==
  /\ phase = "chat"
  /\ phase' = "choosing"
  /\ UNCHANGED <<shown, recorded>>

Close ==
  /\ phase = "choosing"
  /\ phase' = "closed"
  /\ UNCHANGED <<shown, recorded>>

Show(o) ==
  /\ shown' = shown \cup {o}
  /\ UNCHANGED <<phase, recorded>>

Record(o) ==
  /\ o \in shown
  /\ recorded' = o
  /\ UNCHANGED <<phase, shown>>

Next ==
  \/ Start
  \/ Close
  \/ \E o \in Outcomes : Show(o) \/ Record(o)

Spec == Init /\ [][Next]_vars

=============================================================================
