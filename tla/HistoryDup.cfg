\* Two devices push the same execution at the same time.
CONSTANTS
  None = None
  ann = ann
  bob = bob
  a = a
  b = b
  laptop = laptop
  again = again
  phone = phone
  other = other
  nothing = nothing
  Users = {ann, bob}
  Pushes = {laptop, phone}
  Whats = {a, b}
  UserOf <- Sender
  Batch <- WholeSeconds
  After <- Retried
  Limit = 2
  Reader = ann
  PageSize = 1
SPECIFICATION Spec
INVARIANT Deduplicated
