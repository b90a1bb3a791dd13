----------------------------- MODULE Matchmaking -----------------------------
(***************************************************************************)
(* What the match service promises its users, without queues, reads,       *)
(* removals, rooms on the way or a map of connections: a match is a party   *)
(* of the right shape, each of whose members has registered as often as he *)
(* is matched; and a match tells each of them at most once that he was     *)
(* matched, on a connection of his own.  A fault may match every user once *)
(* more than he has registered, and it may keep a match's news from those  *)
(* who have not been told yet.                                             *)
(***************************************************************************)
EXTENDS Naturals

CONSTANTS
  Users,
  Parties,  \* who can be matched with whom
  Conns,    \* the connections that users open
  Owner     \* whose connection it is

VARIABLES
  registered, \* how often each user has registered
  matched,    \* how often he was matched
  slack,      \* faults so far
  issued,     \* how many matches there were
  news,       \* for some of them, whom to tell yet
  succeeded   \* connections that were told success

vars == <<registered, matched, slack, issued, news, succeeded>>

TypeOK ==
  /\ registered \in [Users -> Nat]
  /\ matched \in [Users -> Nat]
  /\ slack \in Nat
  /\ issued \in Nat
  /\ news \subseteq [id : Nat, users : SUBSET Users]
  /\ succeeded \subseteq Conns

Init ==
  /\ registered = [u \in Users |-> 0]
  /\ matched = [u \in Users |-> 0]
  /\ slack = 0
  /\ issued = 0
  /\ news = {}
  /\ succeeded = {}

Register(u) ==
  /\ registered' = [registered EXCEPT ![u] = @ + 1]
  /\ UNCHANGED <<matched, slack, issued, news, succeeded>>

Match ==
  /\ issued' = issued + 1
  /\ \E p \in Parties :
       /\ \A u \in p : matched[u] < registered[u] + slack
       /\ matched' = [u \in Users |-> IF u \in p THEN matched[u] + 1 ELSE matched[u]]
       /\ news' = news \cup {[id |-> issued, users |-> p]}
  /\ UNCHANGED <<registered, slack, succeeded>>

\* It may find none of his connections open.
Tell(e, u) ==
  /\ u \in e.users
  /\ news' = (news \ {e}) \cup {x \in {[id |-> e.id, users |-> e.users \ {u}]} : x.users # {}}
  /\ \/ UNCHANGED succeeded
     \/ \E c \in Conns : Owner[c] = u /\ succeeded' = succeeded \cup {c}
  /\ UNCHANGED <<registered, matched, slack, issued>>

Fail ==
  /\ slack' = slack + 1
  /\ news' \subseteq news
  /\ UNCHANGED <<registered, matched, issued, succeeded>>

Next ==
  \/ \E u \in Users : Register(u)
  \/ Match
  \/ \E e \in news, u \in Users : Tell(e, u)
  \/ Fail

Spec == Init /\ [][Next]_vars
=============================================================================
