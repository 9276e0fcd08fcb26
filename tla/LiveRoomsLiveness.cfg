\* Two connections, two messages with one update, a channel of one, fair scheduling.
CONSTANTS
  r1 = r1
  None = None
  Conns = {c1, c2}
  RoomIds = {r1}
  RoomOf <- SameRoom
  Updates = {u1}
  Capacity = 1
  MaxSends = 2
SPECIFICATION Spec
PROPERTIES ImplementsSharedDocument CleanedUp
