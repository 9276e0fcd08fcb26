-------------------------- MODULE RoomMembersProofs --------------------------
(***************************************************************************)
(* Proofs about RoomMembers, for any users, rooms, roles and invites.      *)
(*                                                                         *)
(* The inductive invariant follows a room through create_room: CreateOK    *)
(* says that nobody is a member before the creator is, and that a room     *)
(* which is being created exists; InviteOK that an invite past its check   *)
(* is to a room the creator has joined, from someone who was made an       *)
(* owner; GrantOK that each role of a member other than the creator was    *)
(* given by such an invite.                                                *)
(***************************************************************************)
EXTENDS RoomMembers, TLAPS

CreateOK ==
  \A r \in RoomIds :
    /\ creating[r] \in {"new", "inserted"} => \A u \in Users : ~IsMember(u, r)
    /\ creating[r] = "inserted" => Exists(r)
    /\ creating[r] \in {"joined", "answered"} /\ Exists(r) => IsMember(Creator[r], r)

\* An invite that has passed verify_room_owner.
Verified(i) == invite[i] \in {"verified", "done"}

InviteOK ==
  \A i \in Invites :
    Verified(i) => /\ asked[i] \in Asked
                   /\ creating[asked[i].room] \notin {"new", "inserted"}
                   /\ MadeOwner(asked[i].by, asked[i].room)

\* The invite was carried out and gave the user the role p.
Gave(i, r, u, p) ==
  /\ invite[i] = "done" /\ asked[i].room = r /\ asked[i].whom = u
  /\ RoleWritten(asked[i]) = p

GrantOK ==
  \A r \in RoomIds, u \in Users :
    /\ IsMember(u, r) /\ u # Creator[r] => \E i \in Invites : Gave(i, r, u, role[r][u])
    /\ IsMember(u, r) /\ u = Creator[r] =>
         IsOwner(u, r) \/ \E i \in Invites : Gave(i, r, u, role[r][u])

RInv == TypeOK /\ MembersOfRooms /\ CreateOK /\ InviteOK /\ GrantOK

-----------------------------------------------------------------------------
USE DEF Exists, IsMember, IsOwner, Verified

\* What a verified invite asks for.
LEMMA VerifiedFields ==
  ASSUME InviteOK
  PROVE  \A i \in Invites : Verified(i) =>
           /\ asked[i].room \in RoomIds /\ asked[i].by \in Users /\ asked[i].whom \in Users
           /\ asked[i].role \in Roles \cup {None}
  BY DEF InviteOK, Asked

LEMMA RInvInit == Init => RInv
  BY CreatorAssumption, RolesAssumption
  DEF Init, RInv, TypeOK, MembersOfRooms, CreateOK, InviteOK, GrantOK

LEMMA InsertRoomRInv ==
  ASSUME RInv, NEW r \in RoomIds, InsertRoom(r)
  PROVE  RInv'
<1> USE CreatorAssumption, RolesAssumption DEF RInv, InsertRoom
<1>1. TypeOK'
  BY DEF TypeOK
<1>2. MembersOfRooms'
  BY DEF TypeOK, MembersOfRooms, CreateOK
<1>3. CreateOK'
  <2>1. owner'[r] # None /\ \A t \in RoomIds \ {r} : owner'[t] = owner[t]
    <3>1. Creator[r] \in Users /\ Creator[r] # None
      OBVIOUS
    <3> QED BY <3>1 DEF TypeOK
  <2>2. creating'[r] = "inserted" /\ \A t \in RoomIds \ {r} : creating'[t] = creating[t]
    BY DEF TypeOK
  <2> QED BY <2>1, <2>2 DEF CreateOK
<1>4. InviteOK'
  BY DEF TypeOK, InviteOK, GrantOK, Gave, RoleWritten, MadeOwner, CreateOK
<1>5. GrantOK'
  BY DEF TypeOK, CreateOK, InviteOK, GrantOK, Gave, RoleWritten
<1> QED BY <1>1, <1>2, <1>3, <1>4, <1>5

LEMMA InsertOwnerRInv ==
  ASSUME RInv, NEW r \in RoomIds, InsertOwner(r)
  PROVE  RInv'
<1> USE CreatorAssumption, RolesAssumption DEF RInv, InsertOwner
<1>1. TypeOK'
  BY DEF TypeOK
<1>2. MembersOfRooms'
  BY DEF TypeOK, MembersOfRooms, CreateOK
<1>3. CreateOK'
  BY DEF TypeOK, MembersOfRooms, CreateOK, InviteOK
<1>4. InviteOK'
  BY DEF TypeOK, InviteOK, GrantOK, Gave, RoleWritten, MadeOwner, CreateOK
<1>5. GrantOK'
  BY DEF TypeOK, CreateOK, InviteOK, GrantOK, Gave, RoleWritten
<1> QED BY <1>1, <1>2, <1>3, <1>4, <1>5

LEMMA AnswerCreateRInv ==
  ASSUME RInv, NEW r \in RoomIds, AnswerCreate(r)
  PROVE  RInv'
<1> USE CreatorAssumption, RolesAssumption DEF RInv, AnswerCreate
<1>1. TypeOK'
  BY DEF TypeOK
<1>2. MembersOfRooms'
  BY DEF TypeOK, MembersOfRooms, CreateOK
<1>3. CreateOK'
  BY DEF TypeOK, MembersOfRooms, CreateOK, InviteOK
<1>4. InviteOK'
  BY DEF TypeOK, InviteOK, GrantOK, Gave, RoleWritten, MadeOwner, CreateOK
<1>5. GrantOK'
  BY DEF TypeOK, CreateOK, InviteOK, GrantOK, Gave, RoleWritten
<1> QED BY <1>1, <1>2, <1>3, <1>4, <1>5

LEMMA DropCreateRInv ==
  ASSUME RInv, NEW r \in RoomIds, DropCreate(r)
  PROVE  RInv'
<1> USE CreatorAssumption, RolesAssumption DEF RInv, DropCreate, CreateFailed
<1>1. TypeOK'
  BY DEF TypeOK
<1>2. MembersOfRooms'
  BY DEF TypeOK, MembersOfRooms, CreateOK
<1>3. CreateOK'
  BY DEF TypeOK, MembersOfRooms, CreateOK, InviteOK
<1>4. InviteOK'
  BY DEF TypeOK, InviteOK, GrantOK, Gave, RoleWritten, MadeOwner, CreateOK
<1>5. GrantOK'
  BY DEF TypeOK, CreateOK, InviteOK, GrantOK, Gave, RoleWritten
<1> QED BY <1>1, <1>2, <1>3, <1>4, <1>5

LEMMA DeleteRoomRInv ==
  ASSUME RInv, NEW r \in RoomIds, NEW u \in Users, DeleteRoom(r, u)
  PROVE  RInv'
<1> USE CreatorAssumption, RolesAssumption DEF RInv, DeleteRoom
<1>1. TypeOK'
  BY DEF TypeOK
<1>2. MembersOfRooms'
  BY DEF TypeOK, MembersOfRooms, CreateOK
<1>3. CreateOK'
  BY DEF TypeOK, MembersOfRooms, CreateOK, InviteOK
<1>4. InviteOK'
  BY DEF TypeOK, InviteOK, GrantOK, Gave, RoleWritten, MadeOwner, CreateOK
<1>5. GrantOK'
  BY DEF TypeOK, CreateOK, InviteOK, GrantOK, Gave, RoleWritten
<1> QED BY <1>1, <1>2, <1>3, <1>4, <1>5

LEMMA VerifyOwnerRInv ==
  ASSUME RInv, NEW i \in Invites, NEW r \in RoomIds, NEW u \in Users, NEW v \in Users,
         NEW p \in Roles \cup {None}, VerifyOwner(i, r, u, v, p)
  PROVE  RInv'
<1> USE CreatorAssumption, RolesAssumption DEF RInv, VerifyOwner, MayInvite
<1>1. TypeOK'
  BY DEF TypeOK, Asked
<1>2. MembersOfRooms'
  BY DEF TypeOK, MembersOfRooms, CreateOK
<1>3. CreateOK'
  BY DEF TypeOK, MembersOfRooms, CreateOK, InviteOK
<1>4. InviteOK'
  <2> DEFINE q == [room |-> r, by |-> u, whom |-> v, role |-> p]
  <2>1. /\ asked'[i] = q /\ invite'[i] = "verified"
        /\ \A j \in Invites \ {i} : asked'[j] = asked[j] /\ invite'[j] = invite[j]
    BY DEF TypeOK
  <2>2. \A w \in Users, t \in RoomIds : MadeOwner(w, t) => MadeOwner(w, t)'
    BY <2>1 DEF MadeOwner
  <2>3. MadeOwner(u, r) /\ creating[r] \notin {"new", "inserted"}
    <3>1. CASE u = Creator[r]
      BY <3>1 DEF MadeOwner, CreateOK
    <3>2. CASE u # Creator[r]
      <4>1. PICK j \in Invites : Gave(j, r, u, "owner")
        BY <3>2 DEF GrantOK
      <4>2. asked[j].role = "owner"
        BY <4>1 DEF Gave, RoleWritten
      <4> QED BY <4>1, <4>2 DEF Gave, MadeOwner, CreateOK
    <3> QED BY <3>1, <3>2
  <2>4. q \in Asked
    BY DEF Asked
  <2>5. ASSUME NEW j \in Invites \ {i}, Verified(j)'
        PROVE  /\ asked'[j] \in Asked
               /\ creating'[asked'[j].room] \notin {"new", "inserted"}
               /\ MadeOwner(asked[j].by, asked[j].room)'
    <3>1. Verified(j) /\ asked'[j] = asked[j]
      BY <2>1, <2>5
    <3>2. asked[j].by \in Users /\ asked[j].room \in RoomIds
      BY <3>1, VerifiedFields DEF TypeOK
    <3> QED BY <3>1, <3>2, <2>2 DEF InviteOK
  <2> QED BY <2>1, <2>2, <2>3, <2>4, <2>5 DEF InviteOK
<1>5. GrantOK'
  <2>1. \A j \in Invites, t \in RoomIds, w \in Users, o \in Roles :
          Gave(j, t, w, o) => Gave(j, t, w, o)'
    BY DEF TypeOK, Gave, RoleWritten
  <2> QED BY <2>1 DEF GrantOK, TypeOK
<1> QED BY <1>1, <1>2, <1>3, <1>4, <1>5

LEMMA RefuseInviteRInv ==
  ASSUME RInv, NEW i \in Invites, NEW r \in RoomIds, NEW u \in Users, RefuseInvite(i, r, u)
  PROVE  RInv'
<1> USE CreatorAssumption, RolesAssumption DEF RInv, RefuseInvite, MayInvite
<1>1. TypeOK'
  BY DEF TypeOK
<1>2. MembersOfRooms'
  BY DEF TypeOK, MembersOfRooms, CreateOK
<1>3. CreateOK'
  BY DEF TypeOK, MembersOfRooms, CreateOK, InviteOK
<1>4. InviteOK'
  <2>1. \A j \in Invites : Verified(j)' => Verified(j)
    BY DEF TypeOK
  <2>2. \A j \in Invites : invite[j] = "done" => invite'[j] = "done"
    BY DEF TypeOK
  <2>3. \A w \in Users, t \in RoomIds : MadeOwner(w, t) => MadeOwner(w, t)'
    BY <2>2 DEF MadeOwner
  <2> QED BY <2>1, <2>3, VerifiedFields DEF InviteOK
<1>5. GrantOK'
  BY DEF TypeOK, CreateOK, InviteOK, GrantOK, Gave, RoleWritten
<1> QED BY <1>1, <1>2, <1>3, <1>4, <1>5

LEMMA InsertMemberRInv ==
  ASSUME RInv, NEW i \in Invites, InsertMember(i)
  PROVE  RInv'
<1> USE CreatorAssumption, RolesAssumption DEF RInv, InsertMember
<1> DEFINE q == asked[i]
           p == RoleWritten(q)
<1>1. q.room \in RoomIds /\ q.whom \in Users /\ p \in Roles
  BY VerifiedFields DEF RoleWritten
<1>2. CASE ~Exists(q.room)
  <2>1. /\ invite'[i] = "dropped" /\ \A j \in Invites \ {i} : invite'[j] = invite[j]
        /\ UNCHANGED <<owner, role, creating, asked>>
    BY <1>2 DEF ForeignKey, TypeOK
  <2>2. \A w \in Users, t \in RoomIds : MadeOwner(w, t) => MadeOwner(w, t)'
    BY <2>1 DEF MadeOwner
  <2>3. TypeOK' /\ MembersOfRooms' /\ CreateOK'
    BY <2>1, <1>2 DEF ForeignKey, TypeOK, MembersOfRooms, CreateOK
  <2>4. InviteOK'
    BY <2>1, <2>2, VerifiedFields DEF InviteOK
  <2>5. GrantOK'
    BY <2>1 DEF GrantOK, Gave
  <2> QED BY <2>3, <2>4, <2>5
<1>3. CASE Exists(q.room)
  <2>1. /\ invite'[i] = "done" /\ \A j \in Invites \ {i} : invite'[j] = invite[j]
        /\ UNCHANGED <<owner, creating, asked>>
    BY <1>3 DEF ForeignKey, TypeOK
  <2>2. \A t \in RoomIds, w \in Users :
          role'[t][w] = IF t = q.room /\ w = q.whom THEN p ELSE role[t][w]
    BY <1>3, <1>1 DEF ForeignKey, RowWritten, TypeOK
  <2>3. \A w \in Users, t \in RoomIds : MadeOwner(w, t) => MadeOwner(w, t)'
    BY <2>1 DEF MadeOwner
  <2>4. TypeOK'
    <3>1. role' \in [RoomIds -> [Users -> Roles \cup {None}]]
      <4>1. role' = [role EXCEPT ![q.room] = [role[q.room] EXCEPT ![q.whom] = p]]
        BY <1>3 DEF ForeignKey, RowWritten
      <4>2. [role[q.room] EXCEPT ![q.whom] = p] \in [Users -> Roles \cup {None}]
        BY <1>1 DEF TypeOK
      <4> QED BY <4>1, <4>2, <1>1 DEF TypeOK
    <3>2. invite' \in [Invites -> {"new", "verified", "done", "refused", "dropped"}]
      BY <1>3 DEF ForeignKey, TypeOK
    <3> QED BY <3>1, <3>2, <2>1 DEF TypeOK
  <2>5. MembersOfRooms'
    BY <2>1, <2>2, <1>3 DEF MembersOfRooms
  <2>6. CreateOK'
    <3>1. creating[q.room] \notin {"new", "inserted"} /\ p # None
      BY <1>1 DEF InviteOK
    <3> QED BY <3>1, <1>1, <2>1, <2>2 DEF CreateOK
  <2>7. InviteOK'
    <3>1. \A j \in Invites : Verified(j)' => Verified(j)
      BY <2>1
    <3> QED BY <3>1, <2>1, <2>3, VerifiedFields DEF InviteOK
  <2>8. GrantOK'
    <3>1. Gave(i, q.room, q.whom, p)'
      BY <2>1 DEF Gave, RoleWritten
    <3>2. \A j \in Invites, t \in RoomIds, w \in Users, o \in Roles :
            Gave(j, t, w, o) => Gave(j, t, w, o)'
      BY <2>1 DEF Gave, RoleWritten
    <3> SUFFICES ASSUME NEW t \in RoomIds, NEW w \in Users, IsMember(w, t)'
                 PROVE  \/ w = Creator[t] /\ IsOwner(w, t)'
                        \/ \E j \in Invites : Gave(j, t, w, role[t][w])'
      BY <2>1 DEF GrantOK
    <3>3. CASE t = q.room /\ w = q.whom
      BY <3>3, <3>1, <2>2
    <3>4. CASE ~(t = q.room /\ w = q.whom)
      <4>1. role'[t][w] = role[t][w] /\ role[t][w] \in Roles
        BY <3>4, <2>2 DEF TypeOK
      <4> QED BY <4>1, <3>2 DEF GrantOK
    <3> QED BY <3>3, <3>4
  <2> QED BY <2>4, <2>5, <2>6, <2>7, <2>8
<1> QED BY <1>2, <1>3

LEMMA DropInviteRInv ==
  ASSUME RInv, NEW i \in Invites, DropInvite(i)
  PROVE  RInv'
<1> USE CreatorAssumption, RolesAssumption DEF RInv, DropInvite
<1>1. TypeOK'
  BY DEF TypeOK
<1>2. MembersOfRooms'
  BY DEF TypeOK, MembersOfRooms, CreateOK
<1>3. CreateOK'
  BY DEF TypeOK, MembersOfRooms, CreateOK, InviteOK
<1>4. InviteOK'
  <2>1. \A j \in Invites : Verified(j)' => Verified(j)
    BY DEF TypeOK
  <2>2. \A j \in Invites : invite[j] = "done" => invite'[j] = "done"
    BY DEF TypeOK
  <2>3. \A w \in Users, t \in RoomIds : MadeOwner(w, t) => MadeOwner(w, t)'
    BY <2>2 DEF MadeOwner
  <2> QED BY <2>1, <2>3, VerifiedFields DEF InviteOK
<1>5. GrantOK'
  BY DEF TypeOK, CreateOK, InviteOK, GrantOK, Gave, RoleWritten
<1> QED BY <1>1, <1>2, <1>3, <1>4, <1>5

LEMMA StutterRInv == ASSUME RInv, UNCHANGED vars PROVE RInv'
  BY DEF vars, RInv, TypeOK, MembersOfRooms, CreateOK, InviteOK, GrantOK, Gave, MadeOwner

LEMMA NextRInv == ASSUME RInv, [Next]_vars PROVE RInv'
<1>1. ASSUME NEW r \in RoomIds, InsertRoom(r) \/ InsertOwner(r) \/ AnswerCreate(r) \/ DropCreate(r)
      PROVE RInv'
  BY <1>1, InsertRoomRInv, InsertOwnerRInv, AnswerCreateRInv, DropCreateRInv
<1>2. ASSUME NEW r \in RoomIds, NEW u \in Users, DeleteRoom(r, u) PROVE RInv'
  BY <1>2, DeleteRoomRInv
<1>3. ASSUME NEW i \in Invites, NEW r \in RoomIds, NEW u \in Users, RefuseInvite(i, r, u)
      PROVE RInv'
  BY <1>3, RefuseInviteRInv
<1>4. ASSUME NEW i \in Invites, NEW r \in RoomIds, NEW u \in Users, NEW v \in Users,
             NEW p \in Roles \cup {None}, VerifyOwner(i, r, u, v, p)
      PROVE RInv'
  BY <1>4, VerifyOwnerRInv
<1>5. ASSUME NEW i \in Invites, InsertMember(i) \/ DropInvite(i) PROVE RInv'
  BY <1>5, InsertMemberRInv, DropInviteRInv
<1>6. CASE Finished \/ UNCHANGED vars
  BY <1>6, StutterRInv DEF Finished
<1> QED BY <1>1, <1>2, <1>3, <1>4, <1>5, <1>6 DEF Next

(***************************************************************************)
(* What holds of rooms, members and invites between any two statements of  *)
(* create_room, delete_room and invite_member.                             *)
(***************************************************************************)
THEOREM RInvHolds == Spec => []RInv
  BY RInvInit, NextRInv, PTL DEF Spec

(***************************************************************************)
(* The rows of collab_rooms and room_members and the requests keep their   *)
(* types.                                                                  *)
(***************************************************************************)
THEOREM TypeCorrect == Spec => []TypeOK
  BY RInvHolds, PTL DEF RInv

(***************************************************************************)
(* There is no member row of a room that does not exist, although invites  *)
(* are checked and written in separate statements.                         *)
(***************************************************************************)
THEOREM MembersHaveARoom == Spec => []MembersOfRooms
  BY RInvHolds, PTL DEF RInv

(***************************************************************************)
(* A room answered to its creator is in the creator's list until it is     *)
(* deleted.                                                                *)
(***************************************************************************)
THEOREM CreatorsKeepRooms == Spec => []CreatorKeepsRoom
<1>1. RInv => CreatorKeepsRoom
  BY DEF RInv, CreateOK, CreatorKeepsRoom
<1> QED BY <1>1, RInvHolds, PTL

(***************************************************************************)
(* Only an invite addressed to the creator can take the creator's role of  *)
(* an owner away.                                                          *)
(***************************************************************************)
THEOREM OwnersStayUnlessReinvited == Spec => []OwnerUnlessReinvited
<1>1. RInv => OwnerUnlessReinvited
  BY CreatorAssumption DEF RInv, CreateOK, GrantOK, Gave, OwnerUnlessReinvited
<1> QED BY <1>1, RInvHolds, PTL

(***************************************************************************)
(* Every member but the creator was invited by the creator or by someone   *)
(* an invite has made an owner.                                            *)
(***************************************************************************)
THEOREM MembersAreInvited == Spec => []MembersWereInvited
<1>1. RInv => MembersWereInvited
  BY DEF RInv, GrantOK, InviteOK, Gave, MembersWereInvited
<1> QED BY <1>1, RInvHolds, PTL

-----------------------------------------------------------------------------
(***************************************************************************)
(* What other parts of the system may rely on: a member created the room   *)
(* or was invited to it, and neither of the two is ever undone.            *)
(***************************************************************************)
LEMMA MemberWasLetIn ==
  ASSUME RInv, NEW r \in RoomIds, NEW u \in Users, IsMember(u, r)
  PROVE  \/ u = Creator[r] /\ creating[r] # "new"
         \/ \E i \in Invites : invite[i] = "done" /\ asked[i].room = r /\ asked[i].whom = u
  BY DEF RInv, CreateOK, GrantOK, Gave

LEMMA LettingInStands ==
  ASSUME TypeOK, [Next]_vars
  PROVE  /\ \A r \in RoomIds : creating[r] # "new" => creating'[r] # "new"
         /\ \A i \in Invites :
              invite[i] = "done" => invite'[i] = "done" /\ asked'[i] = asked[i]
<1> DEFINE Stands == /\ \A r \in RoomIds : creating[r] # "new" => creating'[r] # "new"
                     /\ \A i \in Invites :
                          invite[i] = "done" => invite'[i] = "done" /\ asked'[i] = asked[i]
<1> USE DEF TypeOK
<1>1. ASSUME NEW r \in RoomIds, InsertRoom(r) \/ InsertOwner(r) \/ AnswerCreate(r) \/ DropCreate(r)
      PROVE Stands
  BY <1>1 DEF InsertRoom, InsertOwner, AnswerCreate, DropCreate, CreateFailed
<1>2. ASSUME NEW r \in RoomIds, NEW u \in Users, DeleteRoom(r, u) PROVE Stands
  BY <1>2 DEF DeleteRoom
<1>3. ASSUME NEW i \in Invites, NEW r \in RoomIds, NEW u \in Users, RefuseInvite(i, r, u)
      PROVE Stands
  BY <1>3 DEF RefuseInvite
<1>4. ASSUME NEW i \in Invites, NEW r \in RoomIds, NEW u \in Users, NEW v \in Users,
             NEW p \in Roles \cup {None}, VerifyOwner(i, r, u, v, p)
      PROVE Stands
  BY <1>4 DEF VerifyOwner
<1>5. ASSUME NEW i \in Invites, InsertMember(i) \/ DropInvite(i) PROVE Stands
  BY <1>5 DEF InsertMember, DropInvite
<1>6. CASE UNCHANGED vars
  BY <1>6 DEF vars
<1> QED BY <1>1, <1>2, <1>3, <1>4, <1>5, <1>6 DEF Next, Finished

=============================================================================
