CONSTANTS
  Task = {w1, t1}
  Worker = {w1}
  Key = {k1, k2}
  NoKey = NoKey
  Source = {s1, s2}
  Owner <- EachItsOwn
  MaxChanges = 1
  MaxVersion = 2
  MaxId = 2
  MaxFaults = 1
  MaxLosses = 1
  Steady = {}
  Vanishing = {k1}
  Indexed = {k1}
  Rejected = {}
  WallKeys = {k1, k2}
  BadVersions = {2}
SPECIFICATION FairScanSpec
INVARIANT ScanInv
PROPERTY IndexConverges
