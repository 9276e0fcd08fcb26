---------------------------- MODULE MCRoomMembers ----------------------------
(***************************************************************************)
(* Rooms of two creators, and a third user.                                *)
(***************************************************************************)
EXTENDS RoomMembers, TLC

CONSTANTS ann, bob, cyd, r1, r2

Creators == [r \in RoomIds |-> IF r = r1 THEN ann ELSE bob]

Symmetry == Permutations(Invites)
=============================================================================
