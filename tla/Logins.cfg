\* Four logins, five callbacks, three accounts, one change of address; see FewAtOnce.
CONSTANTS
  None = None
  c1 = c1
  c2 = c2
  c3 = c3
  c4 = c4
  c5 = c5
  l1 = l1
  l2 = l2
  l3 = l3
  l4 = l4
  g = g
  h = h
  k = k
  e1 = e1
  e2 = e2
  e3 = e3
  e4 = e4
  LoginIds = {l1, l2, l3, l4}
  Callbacks = {c1, c2, c3, c4, c5}
  For <- CalledBack
  Accounts = {g, h, k}
  Addresses = {e1, e2, e3, e4}
  MaxChanges = 1
CONSTRAINT FewAtOnce
SPECIFICATION Spec
SYMMETRY Symmetry
INVARIANTS TypeOK OneSessionPerLogin SignedInOnce OneUserPerIdentity LinkedOnlyByAddress AccountKeepsUser
PROPERTY ImplementsDirectory
