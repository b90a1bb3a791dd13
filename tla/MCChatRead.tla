------------------------------ MODULE MCChatRead ------------------------------
EXTENDS ChatRead, TLC

\* The members differ in nothing but their names.
UserSymmetry == Permutations(Users)
=============================================================================
