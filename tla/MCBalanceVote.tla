---------------------------- MODULE MCBalanceVote ----------------------------
EXTENDS BalanceVote, TLC

CONSTANTS u1, u2, r1, r2, r3, r4, red, blue

\* Three requests of one user, enough to vote and cancel twice or to vote again, and
\* one of another user.
TwoUsers == {u1, u2}
FourRequests == {r1, r2, r3, r4}
FourOwners == (r1 :> u1 @@ r2 :> u1 @@ r3 :> u1 @@ r4 :> u2)

TwoColors == {red, blue}

\* Neither the requests of one user nor the colors are told apart.
Symmetry == Permutations({r1, r2, r3}) \cup Permutations(TwoColors)
=============================================================================
