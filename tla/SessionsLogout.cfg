\* A logout that crosses a refresh of the same device.
CONSTANTS
  None = None
  orderly = orderly
  hasty = hasty
  r1 = r1
  r2 = r2
  r3 = r3
  r4 = r4
  l1 = l1
  l2 = l2
  Devices = {orderly, hasty}
  Refreshes = {r1, r2, r3, r4}
  Logouts = {l1, l2}
  By <- Sender
  Overlapping = {hasty}
SPECIFICATION Spec
INVARIANT LogoutRevokes
