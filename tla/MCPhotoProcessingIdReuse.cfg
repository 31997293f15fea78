CONSTANTS
  Task = {t1, t2}
  Key = {k1, k2}
  NoKey = NoKey
  MaxVersion = 2
  MaxId = 3
  MaxFaults = 0
  MaxLosses = 0
  Steady = {}
  Vanishing = {k1}
  Indexed = {k1}
  Rejected = {}
  WallKeys = {}
  BadVersions = {}
SPECIFICATION Spec
SYMMETRY Symmetry
INVARIANTS UsableHasThumbnail
