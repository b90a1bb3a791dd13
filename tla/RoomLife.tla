------------------------------ MODULE RoomLife ------------------------------
(***************************************************************************)
(* What the services promise of a match's room, without the pieces that a  *)
(* room is made of, the events, the lists and the goroutines.  A room is   *)
(* made, is open for its hour, has its final choice and is over, in this   *)
(* order and once.  The choice starts when the hour is over or all members *)
(* have said that it is, which may help a room on that a fault has stopped.*)
(* In its hour no fault can stop it, while it is made one can, and at each *)
(* of the two ends; when it has begun to choose, nothing helps it on.      *)
(* None but its members are marked as playing in it, or as standing by,    *)
(* which they are at its end.                                              *)
(***************************************************************************)
CONSTANTS
  Rooms,
  Users,
  Groups  \* the sets of users that may be matched

VARIABLES
  members,  \* whom the room is for
  phase,    \* how far it has come
  ended,    \* the rooms whose hour is over, or whose members have all said so
  joined,   \* who was marked as playing in it
  released  \* who was marked as standing by at its end

vars == <<members, phase, ended, joined, released>>

TypeOK ==
  /\ members \in [Rooms -> SUBSET Users]
  /\ phase \in [Rooms -> {"none", "making", "open", "stalled", "choosing", "over", "lost"}]
  /\ ended \subseteq Rooms
  /\ joined \in [Rooms -> SUBSET Users]
  /\ released \in [Rooms -> SUBSET Users]

Init ==
  /\ members = [r \in Rooms |-> {}]
  /\ phase = [r \in Rooms |-> "none"]
  /\ ended = {}
  /\ joined = [r \in Rooms |-> {}]
  /\ released = [r \in Rooms |-> {}]

Move(r, from, to) ==
  /\ phase[r] \in from
  /\ phase' = [phase EXCEPT ![r] = to]
  /\ UNCHANGED <<joined, released>>

Match(r, g) ==
  /\ Move(r, {"none"}, "making")
  /\ members' = [members EXCEPT ![r] = g]
  /\ UNCHANGED ended

Open(r) == Move(r, {"making"}, "open") /\ UNCHANGED <<members, ended>>

\* What a room is before its choice starts.
BeforeChoice == {"making", "open", "stalled"}

\* The members' word ends the hour in the step that it takes effect in.
MayEndHour(r) == ended' \in {ended, ended \cup {r}}

StartChoice(r) ==
  /\ Move(r, BeforeChoice, "choosing")
  /\ MayEndHour(r) /\ r \in ended'
  /\ UNCHANGED members

End(r) == Move(r, {"choosing"}, "over") /\ UNCHANGED <<members, ended>>

\* The hour begins before the room is open, and whether it will be or not.
EndHour(r) ==
  /\ phase[r] # "none"
  /\ ended' = ended \cup {r}
  /\ UNCHANGED <<members, phase, joined, released>>

\* A fault stops rooms that are being made, several at once in a crash, or one whose
\* hour is over.
Stall(S) ==
  /\ \A r \in S : phase[r] = "making" \/ (phase[r] = "open" /\ r \in ended)
  /\ phase' = [r \in Rooms |-> IF r \in S THEN "stalled" ELSE phase[r]]
  /\ UNCHANGED <<members, ended, joined, released>>

\* A fault stops a room on its way into the choice, or at the end of it.
Lose(r) ==
  /\ Move(r, BeforeChoice \cup {"choosing"}, "lost")
  /\ MayEndHour(r) /\ (phase[r] = "choosing" \/ r \in ended')
  /\ UNCHANGED members

Join(r, u) ==
  /\ u \in members[r]
  /\ joined' = [joined EXCEPT ![r] = @ \cup {u}]
  /\ UNCHANGED <<members, phase, ended, released>>

Release(r, u) ==
  /\ u \in members[r] /\ phase[r] = "over"
  /\ released' = [released EXCEPT ![r] = @ \cup {u}]
  /\ UNCHANGED <<members, phase, ended, joined>>

Next ==
  \/ \E S \in SUBSET Rooms : Stall(S)
  \/ \E r \in Rooms :
       \/ \E g \in Groups : Match(r, g)
       \/ Open(r) \/ EndHour(r) \/ StartChoice(r) \/ End(r) \/ Lose(r)
       \/ \E u \in Users : Join(r, u) \/ Release(r, u)

Spec == Init /\ [][Next]_vars
=============================================================================
