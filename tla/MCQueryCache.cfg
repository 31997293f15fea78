CONSTANTS
  Photo = {p1, p2}
  Album = {a1, a2}
  Hidden = Hidden
  Reader = {r1, r2}
  Queried = {"index", "shared", "albums"}
  MaxWrites = 2
  MaxGets = 2
  MaxFaults = 1
  MaxOrders = 1
SPECIFICATION Spec
INVARIANTS CacheInv ReadsAreCurrent
SYMMETRY Symmetry
CHECK_DEADLOCK FALSE
