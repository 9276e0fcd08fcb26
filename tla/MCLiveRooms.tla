----------------------------- MODULE MCLiveRooms -----------------------------
(***************************************************************************)
(* Small instances of LiveRooms for TLC.                                   *)
(***************************************************************************)
EXTENDS LiveRoomsRefinement, TLC

CONSTANT r1

\* Every connection asks for the same room.
SameRoom == [c \in Conns |-> r1]

\* Bound: the second message is read while some connection has not joined yet.
TwoTalk == sends > 1 => \E c \in Conns : room[c] = None

\* Connections to the same room, and updates, are interchangeable.
Symmetry == Permutations(Conns) \cup Permutations(Updates)
=============================================================================
