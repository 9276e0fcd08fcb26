----------------------- MODULE CollabRoomsRefinement -----------------------
(***************************************************************************)
(* CollabRooms implements SharedWorkspace: a room is open while it has its *)
(* row in collab_rooms, its guests are the invites that were carried out,  *)
(* and a client is admitted once verify_room_member has said so.           *)
(***************************************************************************)
EXTENDS CollabRooms, LiveRoomsRefinement

phaseBar ==
  [r \in RoomIds |->
     IF creating[r] = "new" THEN "new"
     ELSE IF Members!Exists(r) THEN "open" ELSE "closed"]

InvitesTo(r) == {i \in Invites : invite[i] = "done" /\ asked[i].room = r}

Letter(q) == [by |-> q.by, whom |-> q.whom, asOwner |-> q.role = "owner"]

guestsBar == [r \in RoomIds |-> {Letter(asked[i]) : i \in InvitesTo(r)}]

\* It has passed the check, or has been given a room since.
Entered(c) == pc[c] = "admitted" \/ room[c] # None

admittedBar == {c \in Conns : Entered(c)}

Workspace == INSTANCE SharedWorkspace WITH
               Docs <- Conns, Clients <- Conns, RoomOfDoc <- RoomOf, Wants <- RoomOf,
               People <- Users, Rooms <- RoomIds, Founder <- Creator, Person <- UserOf,
               content <- doc, at <- atBar, served <- servedBar, view <- received,
               phase <- phaseBar, guests <- guestsBar, admitted <- admittedBar

(***************************************************************************)
(* The statements of three handlers, the rows they race for, the registry  *)
(* and the tasks behave like one workspace: every connection that is ever  *)
(* served was admitted while its room was there, for the creator or for    *)
(* someone an owner had let in, and is shown a document of that room only. *)
(* An invite checked before a deletion lets nobody in after it.            *)
(***************************************************************************)
ImplementsWorkspace == Workspace!WorkspaceSpec
=============================================================================
