\* Three connections to one room, two messages over a channel that holds one.
CONSTANTS
  r1 = r1
  None = None
  Conns = {c1, c2, c3}
  RoomIds = {r1}
  RoomOf <- SameRoom
  Updates = {u1, u2}
  Capacity = 1
  MaxSends = 2
SPECIFICATION SafeSpec
SYMMETRY Symmetry
CONSTRAINT TwoTalk
INVARIANTS TypeOK CountExact NoAbandonedRoom NoMissedUpdate QuietMeansInSync
PROPERTY CondemnedWhenUnused
