------------------------------- MODULE Ballot -------------------------------
(***************************************************************************)
(* What voting on a balance game promises its users, without indexes,      *)
(* counters, half-done requests or clean-ups: a box of papers.  A voter    *)
(* has at most one in it, which nobody alters; he takes it out before he   *)
(* casts another; a paper that was taken out never comes back; and the box *)
(* is emptied once the room is over.                                       *)
(***************************************************************************)
CONSTANTS
  Papers,  \* each can be cast once
  Voters,
  Voter,   \* whose paper it is
  Colors   \* what can be voted for

VARIABLES
  box,   \* the papers cast, with their colors
  spent, \* papers that were cast, or whose voters gave up
  over   \* the room is over

vars == <<box, spent, over>>

Of(v) == {b \in box : Voter[b[1]] = v}

TypeOK ==
  /\ box \subseteq Papers \X Colors
  /\ spent \subseteq Papers
  /\ over \in BOOLEAN

Init ==
  /\ box = {}
  /\ spent = {}
  /\ over = FALSE

Cast(p, c) ==
  /\ p \notin spent
  /\ Of(Voter[p]) = {}
  /\ box' = box \cup {<<p, c>>}
  /\ spent' = spent \cup {p}
  /\ UNCHANGED over

Withdraw(v) ==
  /\ box' = box \ Of(v)
  /\ UNCHANGED <<spent, over>>

\* Requests for other things, votes refused and votes cut off use papers up, too.
Spoil(S) ==
  /\ spent' = spent \cup S
  /\ UNCHANGED <<box, over>>

Close ==
  /\ over' = TRUE
  /\ UNCHANGED <<box, spent>>

Empty ==
  /\ over
  /\ box' = {}
  /\ UNCHANGED <<spent, over>>

Next ==
  \/ \E p \in Papers, c \in Colors : Cast(p, c)
  \/ \E v \in Voters : Withdraw(v)
  \/ \E S \in SUBSET Papers : Spoil(S)
  \/ Close
  \/ Empty

Spec == Init /\ [][Next]_vars
=============================================================================
