----------------------------- MODULE MCMatching -----------------------------
EXTENDS Matching, TLC

CONSTANTS m1, m2, f1, k1, k2, k3, k4

\* A man with two connections, an older man, and a woman whose age fits the
\* first man only in the second range.
PairUsers == {m1, m2, f1}
PairMales == {m1, m2}
PairAges == (m1 :> 20 @@ m2 :> 34 @@ f1 :> 28)
PairConns == {k1, k2, k3, k4}
PairOwner == (k1 :> m1 @@ k2 :> m1 @@ k3 :> m2 @@ k4 :> f1)

TwoConns == Permutations({k1, k2})
=============================================================================
