----------------------------- MODULE VotingRound -----------------------------
(***************************************************************************)
(* What a room is promised about its balance games, without monitors,      *)
(* lists, keys and documents: a game starts no earlier than StartDelay     *)
(* after the room, its result is told no earlier than FinishDelay after    *)
(* that, once, and there is one game.  Every fault may cost one game and   *)
(* one result of each game more, and a panic of the monitors any number of *)
(* games, but never a minute of the voting time.                           *)
(***************************************************************************)
EXTENDS Naturals

CONSTANTS
  Forms,       \* the numbers of the games
  StartDelay,
  FinishDelay

VARIABLES
  now,      \* the clock
  opened,   \* how many games there have been
  openedAt, \* when each began
  told,     \* how often its result was told
  slack,    \* faults so far
  broken    \* the monitors have panicked

vars == <<now, opened, openedAt, told, slack, broken>>

TypeOK ==
  /\ now \in Nat
  /\ opened \in Nat
  /\ openedAt \in [Forms -> Nat]
  /\ told \in [Forms -> Nat]
  /\ slack \in Nat
  /\ broken \in BOOLEAN

Init ==
  /\ now = 0
  /\ opened = 0
  /\ openedAt = [f \in Forms |-> 0]
  /\ told = [f \in Forms |-> 0]
  /\ slack = 0
  /\ broken = FALSE

\* That the game began may stay unknown, which is a fault.
Open(f) ==
  /\ f = opened + 1
  /\ StartDelay <= now
  /\ opened < 1 + slack \/ broken
  /\ opened' = f
  /\ openedAt' = [openedAt EXCEPT ![f] = now]
  /\ slack' \in {slack, slack + 1}
  /\ UNCHANGED <<now, told, broken>>

Tell(f) ==
  /\ f <= opened
  /\ openedAt[f] + FinishDelay <= now
  /\ told[f] < 1 + slack
  /\ told' = [told EXCEPT ![f] = @ + 1]
  /\ UNCHANGED <<now, opened, openedAt, slack, broken>>

Pass ==
  /\ now' = now + 1
  /\ UNCHANGED <<opened, openedAt, told, slack, broken>>

Slip ==
  /\ slack' = slack + 1
  /\ UNCHANGED <<now, opened, openedAt, told, broken>>

Break ==
  /\ broken' = TRUE
  /\ UNCHANGED <<now, opened, openedAt, told, slack>>

Next ==
  \/ \E f \in Forms : Open(f) \/ Tell(f)
  \/ Pass \/ Slip \/ Break

Spec == Init /\ [][Next]_vars
=============================================================================
