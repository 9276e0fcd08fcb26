---------------------------- MODULE CollabRooms ----------------------------
(***************************************************************************)
(* Collaborative editing as a whole: the tables of RoomMembers and the     *)
(* live rooms of LiveRooms.  They meet in one place, verify_room_member    *)
(* at the start of handle_ws_connection: a connection is admitted if its   *)
(* user has a row in room_members, and nothing is looked up again while it *)
(* is served.  Requests and connections otherwise go their own ways, so    *)
(* rooms are created, deleted and shared while others join and leave them. *)
(***************************************************************************)
EXTENDS LiveRooms

CONSTANTS
  Users,
  UserOf,   \* the user whose access token each connection brings
  Creator,  \* the user whose POST /rooms creates each room
  Invites,  \* POST /rooms/{room_id}/invite requests
  Roles

ASSUME UserOfAssumption  == UserOf \in [Conns -> Users]
ASSUME CreatorAssumption == Creator \in [RoomIds -> Users]
ASSUME RolesAssumption   == {"owner", "editor"} \subseteq Roles /\ None \notin Roles \cup Users

VARIABLES owner, role, creating, invite, asked

memberVars == <<owner, role, creating, invite, asked>>
collabVars == <<vars, memberVars>>

Members == INSTANCE RoomMembers

-----------------------------------------------------------------------------
\* Variants: any user may enter a room there is; whoever was invited may enter.
EntersAny(c) == Members!Exists(RoomOf[c])
EntersInvited(c) ==
  \/ Members!IsMember(UserOf[c], RoomOf[c])
  \/ \E i \in Invites : invite[i] = "done" /\ asked[i].room = RoomOf[c] /\ asked[i].whom = UserOf[c]

\* verify_room_member(&app.db, &room_id, &user_id)
MayEnter(c) == Members!IsMember(UserOf[c], RoomOf[c])

Admitted(c) == pc[c] = "upgraded" /\ pc'[c] = "admitted"

CollabInit == Init /\ Members!Init

\* A step of a live room, with the query that admits a connection made good.
LiveStep ==
  /\ Next
  /\ \A c \in Conns : Admitted(c) => MayEnter(c)
  /\ UNCHANGED memberVars

\* A statement of create_room, delete_room or invite_member.
MemberStep == Members!Next /\ UNCHANGED vars

CollabNext == LiveStep \/ MemberStep

CollabSpec == CollabInit /\ [][CollabNext]_collabVars

-----------------------------------------------------------------------------
\* The user created the room or an invite has been addressed to the user.
Invited(u, r) ==
  \/ u = Creator[r] /\ creating[r] # "new"
  \/ \E i \in Invites : /\ invite[i] = "done"
                        /\ asked[i].room = r /\ asked[i].whom = u

(***************************************************************************)
(* A document stays among those who were let into its room.  Whoever has   *)
(* been given a room, is shown its text or has had a part in it, now or    *)
(* earlier, is the user who created the room or was invited to it; this    *)
(* survives deletions, memberships that end while a connection is served,  *)
(* and rooms that are removed from the registry and built again.           *)
(***************************************************************************)
SharedAmongInvited ==
  /\ \A c \in Conns : room[c] # None => Invited(UserOf[c], RoomOf[c])
  /\ \A o \in Conns : \A i \in DOMAIN log[o] : Invited(UserOf[log[o][i].from], RoomOf[o])

(***************************************************************************)
(* A room that is not in collab_rooms, because it was deleted or never     *)
(* inserted, admits nobody: delete_room does not reach the live room, but  *)
(* from then on its connections can only become fewer.  It must hold       *)
(* although an invite that was verified before may be written after the    *)
(* deletion.                                                               *)
(***************************************************************************)
DeletedRoomDrains ==
  [][\A c \in Conns : Admitted(c) => Members!Exists(RoomOf[c])]_collabVars

=============================================================================
