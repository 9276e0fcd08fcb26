---------------------------- MODULE MCCollabRooms ----------------------------
(***************************************************************************)
(* Two rooms of one user, with a connection of the user's to each; or one  *)
(* room, to which another user may be invited, and a connection of each.   *)
(***************************************************************************)
EXTENDS CollabRoomsRefinement, TLC

CONSTANTS ann, bob, c1, c2, c3, r1, r2, i1

Tokens == [c \in Conns |-> IF c = c2 THEN bob ELSE ann]
Urls   == [c \in Conns |-> IF c = c3 THEN r2 ELSE r1]
Owners == [r \in RoomIds |-> ann]

\* Bound: there is the second room, or what bob does in the first, not both;
\* an invite asks for an owner, or for no role, which makes an editor.
RoomOrGuest ==
  \/ /\ creating[r2] = "new" /\ pc[c3] = "upgraded"
     /\ invite[i1] \in {"verified", "done"} => asked[i1].role # "editor"
  \/ invite[i1] = "new" /\ pc[c2] = "upgraded"
=============================================================================
