\* Two counted connections to one room id on two CollabRooms.
CONSTANTS
  r1 = r1
  None = None
  Conns = {c1, c2, c3}
  RoomIds = {r1}
  RoomOf <- SameRoom
  Updates = {u1, u2}
  Capacity = 1
  MaxSends = 0
SPECIFICATION SafeSpec
INVARIANT OneRoomPerId
