----------------------------- MODULE RoomMembers -----------------------------
(***************************************************************************)
(* The database half of collaborative editing: create_room, delete_room    *)
(* and invite_member of src/collab/handler.rs over the tables collab_rooms *)
(* and room_members, and the membership check that every listing, invite   *)
(* and WebSocket connection makes.                                         *)
(*                                                                         *)
(* No handler uses a transaction: each SQL statement is a step of its own, *)
(* and a request may be dropped between two of them.                       *)
(***************************************************************************)
EXTENDS Naturals, FiniteSets

CONSTANTS
  Users,
  RoomIds,  \* rooms that are ever created, named by their POST /rooms request
  Creator,  \* the user who sends that request
  Invites,  \* POST /rooms/{room_id}/invite requests
  Roles,    \* what req.role may be; the column is free text
  None

ASSUME CreatorAssumption == Creator \in [RoomIds -> Users]
ASSUME RolesAssumption   == {"owner", "editor"} \subseteq Roles /\ None \notin Roles \cup Users

VARIABLES
  owner,     \* collab_rooms: room id -> owner_id, None when there is no row
  role,      \* room_members: room id -> user -> role, None when there is no row
  creating,  \* where the create_room of each room is
  invite,    \* where each invite_member is
  asked      \* what each of them asks for, once it is verified

vars == <<owner, role, creating, invite, asked>>

-----------------------------------------------------------------------------
\* What an invite_member request asks for, and who sent it.
Asked == [room : RoomIds, by : Users, whom : Users, role : Roles \cup {None}]

Exists(r)      == owner[r] # None
IsMember(u, r) == role[r][u] # None
IsOwner(u, r)  == role[r][u] = "owner"

Init ==
  /\ owner    = [r \in RoomIds |-> None]
  /\ role     = [r \in RoomIds |-> [u \in Users |-> None]]
  /\ creating = [r \in RoomIds |-> "new"]
  /\ invite   = [i \in Invites |-> "new"]
  /\ asked    = [i \in Invites |-> None]

-----------------------------------------------------------------------------
(* create_room                                                             *)

InsertRoom(r) ==
  /\ creating[r] = "new"
  /\ owner' = [owner EXCEPT ![r] = Creator[r]]
  /\ creating' = [creating EXCEPT ![r] = "inserted"]
  /\ UNCHANGED <<role, invite, asked>>

\* INSERT INTO room_members ... VALUES (?, ?, 'owner')
InsertOwner(r) ==
  /\ creating[r] = "inserted"
  /\ role' = [role EXCEPT ![r][Creator[r]] = "owner"]
  /\ creating' = [creating EXCEPT ![r] = "joined"]
  /\ UNCHANGED <<owner, invite, asked>>

\* The room is read back by its id and answered.
AnswerCreate(r) ==
  /\ creating[r] = "joined"
  /\ creating' = [creating EXCEPT ![r] = IF Exists(r) THEN "answered" ELSE "dropped"]
  /\ UNCHANGED <<owner, role, invite, asked>>

\* Variant: a failure of the second INSERT is logged and the room answered.
CreateDropped(r) == IF creating[r] = "inserted" THEN "answered" ELSE "dropped"

\* A statement fails, the client hangs up or the server stops.
CreateFailed(r) == "dropped"

DropCreate(r) ==
  /\ creating[r] \in {"inserted", "joined"}
  /\ creating' = [creating EXCEPT ![r] = CreateFailed(r)]
  /\ UNCHANGED <<owner, role, invite, asked>>

-----------------------------------------------------------------------------
(* delete_room                                                             *)

\* One DELETE ... WHERE id = ? AND owner_id = ?, and ON DELETE CASCADE.  The id
\* of a room is known to those it was answered to, and to members, whose
\* list_rooms has it.
DeleteRoom(r, u) ==
  /\ creating[r] = "answered" \/ \E v \in Users : IsMember(v, r)
  /\ owner[r] = u
  /\ owner' = [owner EXCEPT ![r] = None]
  /\ role' = [role EXCEPT ![r] = [v \in Users |-> None]]
  /\ UNCHANGED <<creating, invite, asked>>

-----------------------------------------------------------------------------
(* invite_member                                                           *)

\* Variant: any member may invite.
MembersMayInvite(u, r) == IsMember(u, r)

\* verify_room_owner
MayInvite(u, r) == IsOwner(u, r)

\* A request to any room, for any user, with any role or none.
VerifyOwner(i, r, u, v, p) ==
  /\ invite[i] = "new"
  /\ MayInvite(u, r)
  /\ asked' = [asked EXCEPT ![i] = [room |-> r, by |-> u, whom |-> v, role |-> p]]
  /\ invite' = [invite EXCEPT ![i] = "verified"]
  /\ UNCHANGED <<owner, role, creating>>

\* 403
RefuseInvite(i, r, u) ==
  /\ invite[i] = "new"
  /\ ~MayInvite(u, r)
  /\ invite' = [invite EXCEPT ![i] = "refused"]
  /\ UNCHANGED <<owner, role, creating, asked>>

\* Variant: room_members has no foreign key on collab_rooms.
ForeignKeyAbsent(r) == TRUE

\* FOREIGN KEY (room_id) REFERENCES collab_rooms(id)
ForeignKey(r) == Exists(r)

\* Variant: the row of who invites is written, not that of the invitee.
RowOfInviter(q) == q.by

\* The user of the row that INSERT ... ON DUPLICATE KEY UPDATE writes.
RowWritten(q) == q.whom

\* Variant: the last two values of the INSERT are bound in the wrong order.
RoleMisbound(q) == q.whom

\* req.role.unwrap_or("editor")
RoleWritten(q) == IF q.role = None THEN "editor" ELSE q.role

\* The user has been found by e-mail; the INSERT fails without the room.
InsertMember(i) ==
  /\ invite[i] = "verified"
  /\ LET q == asked[i] IN
       IF ForeignKey(q.room)
       THEN /\ role' = [role EXCEPT ![q.room][RowWritten(q)] = RoleWritten(q)]
            /\ invite' = [invite EXCEPT ![i] = "done"]
       ELSE /\ invite' = [invite EXCEPT ![i] = "dropped"]
            /\ UNCHANGED role
  /\ UNCHANGED <<owner, creating, asked>>

\* No such user, or the request is dropped.
DropInvite(i) ==
  /\ invite[i] = "verified"
  /\ invite' = [invite EXCEPT ![i] = "dropped"]
  /\ UNCHANGED <<owner, role, creating, asked>>

-----------------------------------------------------------------------------
Finished ==
  /\ \A r \in RoomIds : creating[r] \in {"answered", "dropped"}
  /\ \A i \in Invites : invite[i] \in {"done", "refused", "dropped"}
  /\ UNCHANGED vars

Next ==
  \/ \E r \in RoomIds :
       \/ InsertRoom(r) \/ InsertOwner(r) \/ AnswerCreate(r) \/ DropCreate(r)
       \/ \E u \in Users : DeleteRoom(r, u)
  \/ \E i \in Invites :
       \/ \E r \in RoomIds, u \in Users : RefuseInvite(i, r, u)
       \/ \E r \in RoomIds, u, v \in Users, p \in Roles \cup {None} : VerifyOwner(i, r, u, v, p)
       \/ InsertMember(i) \/ DropInvite(i)
  \/ Finished

Spec == Init /\ [][Next]_vars

-----------------------------------------------------------------------------
(***************************************************************************)
(* Type invariant: the rows of the two tables and the requests.            *)
(***************************************************************************)
TypeOK ==
  /\ owner \in [RoomIds -> Users \cup {None}]
  /\ role \in [RoomIds -> [Users -> Roles \cup {None}]]
  /\ creating \in [RoomIds -> {"new", "inserted", "joined", "answered", "dropped"}]
  /\ invite \in [Invites -> {"new", "verified", "done", "refused", "dropped"}]
  /\ asked \in [Invites -> Asked \cup {None}]

(***************************************************************************)
(* A member row is always one of an existing room: an invite that was      *)
(* verified before a delete_room leaves nothing behind when it writes      *)
(* after it, so a deleted room admits nobody.                              *)
(***************************************************************************)
MembersOfRooms ==
  \A r \in RoomIds, u \in Users : IsMember(u, r) => Exists(r)

(***************************************************************************)
(* A room that was answered to its creator stays in the creator's list     *)
(* until it is deleted: create_room never answers a room it could not add  *)
(* the owner to, and no invite takes a membership away.                    *)
(***************************************************************************)
CreatorKeepsRoom ==
  \A r \in RoomIds :
    creating[r] = "answered" /\ Exists(r) => IsMember(Creator[r], r)

(***************************************************************************)
(* The creator is the owner in room_members as well, which is what invites *)
(* are checked against, unless an invite has been addressed to the creator *)
(* (the upsert then overwrites the role, and nothing protects 'owner').    *)
(***************************************************************************)
OwnerUnlessReinvited ==
  \A r \in RoomIds :
    creating[r] = "answered" /\ Exists(r) =>
      \/ IsOwner(Creator[r], r)
      \/ \E i \in Invites : /\ invite[i] = "done"
                            /\ asked[i].room = r /\ asked[i].whom = Creator[r]

\* The user has been the owner from the start, or was invited as one.
MadeOwner(u, r) ==
  \/ u = Creator[r]
  \/ \E i \in Invites : /\ invite[i] = "done"
                        /\ asked[i].room = r /\ asked[i].whom = u /\ asked[i].role = "owner"

(***************************************************************************)
(* Membership spreads from the creator through owners only: a member who   *)
(* is not the creator was invited by someone who is, or to whom an invite  *)
(* has given the role of an owner.                                         *)
(***************************************************************************)
MembersWereInvited ==
  \A r \in RoomIds, u \in Users :
    IsMember(u, r) /\ u # Creator[r] =>
      \E i \in Invites : /\ invite[i] = "done" /\ MadeOwner(asked[i].by, r)
                         /\ asked[i].room = r /\ asked[i].whom = u

=============================================================================
