\* A room, its creator, two other users and three invites.
CONSTANTS
  None = None
  ann = ann
  bob = bob
  cyd = cyd
  r1 = r1
  r2 = r2
  Users = {ann, bob, cyd}
  RoomIds = {r1}
  Creator <- Creators
  Invites = {i1, i2, i3}
  Roles = {"owner", "editor"}
SPECIFICATION Spec
SYMMETRY Symmetry
INVARIANTS TypeOK MembersOfRooms CreatorKeepsRoom OwnerUnlessReinvited MembersWereInvited
