\* A retried push and two others; the limit is two entries.
CONSTANTS
  None = None
  ann = ann
  bob = bob
  a = a
  b = b
  laptop = laptop
  again = again
  phone = phone
  other = other
  nothing = nothing
  Users = {ann, bob}
  Pushes = {laptop, again, phone, other, nothing}
  Whats = {a, b}
  UserOf <- Sender
  Batch <- Pushed
  After <- Retried
  Limit = 2
  Reader = ann
  PageSize = 1
SPECIFICATION Spec
INVARIANTS TypeOK RetryAddsNothing LimitHolds RecentIsKept ListingComplete
