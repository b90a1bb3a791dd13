---------------------------- MODULE MCRoomCreation ----------------------------
EXTENDS RoomCreation, TLC

\* Rooms differ in nothing but their names.
RoomSymmetry == Permutations(Rooms)

\* Users have no state in common: the one who is looked at is matched twice.
OneMember == {Users}
=============================================================================
