CONSTANTS
  Key = {k1, k2}
  Routine = {g1, g2}
  NoKey = NoKey
  MaxVersion = 2
  MaxFaults = 2
  Attempts = 2
SPECIFICATION FairSpec
INVARIANTS HubInv QuietKeyIsShown
PROPERTIES PassesEnd ChangesArrive
CHECK_DEADLOCK FALSE
