---- MODULE MCGameRoom ----
EXTENDS GameRoom, TLC

Symmetry == Permutations(Users)

\* Every set of members, and every member.
AnyActive == SUBSET Users
AllActive == {Users}
====
