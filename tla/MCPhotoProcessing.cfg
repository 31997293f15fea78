CONSTANTS
  Task = {t1, t2}
  Key = {k1, k2}
  NoKey = NoKey
  MaxVersion = 3
  MaxId = 2
  MaxFaults = 1
  MaxLosses = 1
  Steady = {k1}
  Vanishing = {k2}
  Indexed = {k1, k2}
  Rejected = {k2}
  WallKeys = {k2}
  BadVersions = {3}
SPECIFICATION Spec
SYMMETRY Symmetry
INVARIANTS IndexInv OfferedWallpaperHasFile VerdictIsOfTheVersion
PROPERTIES IndexNeverGoesBack SteadyStaysUsable
