---------------------------- MODULE ReadReceipts ----------------------------
(***************************************************************************)
(* What the unread counts of a room mean, without connections, events,     *)
(* queries and handlers: a message that has arrived is owed one reading by *)
(* everybody but those who had the room open when it was sent.  A visit    *)
(* gives receipts for messages from before it; once all that it will give  *)
(* are given, it may be tallied, and takes one from the count of each      *)
(* message that it has a receipt for.  Nothing else changes a count.       *)
(***************************************************************************)
EXTENDS Integers

CONSTANTS
  Users,
  NoUser,
  Others,  \* for every set of users, how many there are besides
  Msgs,    \* numbers of messages
  Visits   \* and of visits, in the order in which they begin

VARIABLES
  sent,     \* how many messages were sent
  stage,    \* where each message is
  audience, \* who had the room open when it was sent
  visits,   \* how many visits have begun
  visitor,  \* who visited
  since,    \* how many messages had been sent before
  receipts, \* for each message, the visits that have read it
  tallied,  \* the visits that were tallied
  owed      \* each message's count

vars == <<sent, stage, audience, visits, visitor, since, receipts, tallied, owed>>

TypeOK ==
  /\ sent \in Nat
  /\ stage \in [Msgs -> {"none", "flying", "stored", "lost"}]
  /\ audience \in [Msgs -> SUBSET Users]
  /\ visits \in Nat
  /\ visitor \in [Visits -> Users \cup {NoUser}]
  /\ since \in [Visits -> Nat]
  /\ receipts \in [Msgs -> SUBSET Visits]
  /\ tallied \subseteq Visits
  /\ owed \in [Msgs -> Int]

Init ==
  /\ sent = 0
  /\ stage = [m \in Msgs |-> "none"]
  /\ audience = [m \in Msgs |-> {}]
  /\ visits = 0
  /\ visitor = [v \in Visits |-> NoUser]
  /\ since = [v \in Visits |-> 0]
  /\ receipts = [m \in Msgs |-> {}]
  /\ tallied = {}
  /\ owed = [m \in Msgs |-> 0]

Send(m) ==
  /\ m = sent + 1
  /\ sent' = m
  /\ stage' = [stage EXCEPT ![m] = "flying"]
  /\ \E S \in SUBSET Users : audience' = [audience EXCEPT ![m] = S]
  /\ UNCHANGED <<visits, visitor, since, receipts, tallied, owed>>

Arrive(m) ==
  /\ stage[m] = "flying"
  /\ stage' = [stage EXCEPT ![m] = "stored"]
  /\ owed' = [owed EXCEPT ![m] = Others[audience[m]]]
  /\ UNCHANGED <<sent, audience, visits, visitor, since, receipts, tallied>>

Lose(m) ==
  /\ stage[m] = "flying"
  /\ stage' = [stage EXCEPT ![m] = "lost"]
  /\ UNCHANGED <<sent, audience, visits, visitor, since, receipts, tallied, owed>>

Visit(v, u) ==
  /\ v = visits + 1
  /\ visits' = v
  /\ visitor' = [visitor EXCEPT ![v] = u]
  /\ since' = [since EXCEPT ![v] = sent]
  /\ UNCHANGED <<sent, stage, audience, receipts, tallied, owed>>

Receive(v, m) ==
  /\ v <= visits /\ v \notin tallied
  /\ stage[m] = "stored" /\ m <= since[v] /\ v \notin receipts[m]
  /\ receipts' = [receipts EXCEPT ![m] = @ \cup {v}]
  /\ UNCHANGED <<sent, stage, audience, visits, visitor, since, tallied, owed>>

Tally(v) ==
  /\ v <= visits /\ v \notin tallied
  /\ tallied' = tallied \cup {v}
  /\ owed' = [m \in Msgs |-> IF v \in receipts[m] THEN owed[m] - 1 ELSE owed[m]]
  /\ UNCHANGED <<sent, stage, audience, visits, visitor, since, receipts>>

Next ==
  \/ \E m \in Msgs : Send(m) \/ Arrive(m) \/ Lose(m)
  \/ \E v \in Visits :
       \/ \E u \in Users : Visit(v, u)
       \/ \E m \in Msgs : Receive(v, m)
       \/ Tally(v)

Spec == Init /\ [][Next]_vars
=============================================================================
