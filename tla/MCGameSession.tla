--------------------------- MODULE MCGameSession ---------------------------
EXTENDS GameSession, TLC

CONSTANTS u1, u2, k1, k2, k3

\* Three sockets of one user.
OneUser == {u1}
ThreeConns == {k1, k2, k3}
OneOwner == [c \in ThreeConns |-> u1]

\* Two users with one socket each.
TwoUsers == {u1, u2}
TwoConns == {k1, k2}
TwoOwners == (k1 :> u1 @@ k2 :> u2)

Reconnects == Permutations(ThreeConns)
=============================================================================
