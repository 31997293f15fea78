CONSTANTS
  Photo = {1}
  Request = {r1, r2}
  Bytes = {b1, b2}
  MaxChanges = 1
  MaxToken = 2
  MaxGen = 3
  OwnerSlots = 1
  PublicSlots = 1
SPECIFICATION Spec
SYMMETRY Symmetry
INVARIANT PermitInv
PROPERTIES DelayedShareIsRefused ImplementsSharePermits
