\* Ann's two rooms, two connections of hers and one of bob's, and an invite.
CONSTANTS
  None = None
  ann = ann
  bob = bob
  c1 = c1
  c2 = c2
  c3 = c3
  r1 = r1
  r2 = r2
  i1 = i1
  Conns = {c1, c2, c3}
  RoomIds = {r1, r2}
  RoomOf <- Urls
  Updates = {u1}
  Capacity = 1
  MaxSends = 1
  Users = {ann, bob}
  UserOf <- Tokens
  Creator <- Owners
  Invites = {i1}
  Roles = {"owner", "editor"}
SPECIFICATION CollabSpec
CONSTRAINT RoomOrGuest
INVARIANTS SharedAmongInvited RoomsIsolated
PROPERTIES DeletedRoomDrains ImplementsWorkspace
